---- MODULE Spec2Model ----
(***************************************************************************)
(* A model of the campaign page kit's engine: resolveOutput and build()    *)
(* (lib/engine/build.js), and serve() with its watcher handler             *)
(* handleChange (lib/engine/serve.js), driven by the rebuild callback of   *)
(* the dev command (lib/actions/dev.js).                                   *)
(*                                                                         *)
(* Strings are sequences of one-character strings, so that split,          *)
(* replace and path.join are computed the way the code computes them.      *)
(***************************************************************************)
EXTENDS Integers, Sequences, FiniteSets, TLC

(***************************************************************************)
(* String helpers (JavaScript String / RegExp methods used by the code).   *)
(***************************************************************************)

\* s.split(sep) for a one-character separator: empty segments are kept.
Split(s, sep) ==
    LET RECURSIVE F(_, _, _)
        F(i, cur, acc) ==
            IF i > Len(s) THEN Append(acc, cur)
            ELSE IF s[i] = sep THEN F(i + 1, <<>>, Append(acc, cur))
            ELSE F(i + 1, Append(cur, s[i]), acc)
    IN  F(1, <<>>, <<>>)

\* segs.join(sep)
JoinWith(segs, sep) ==
    LET RECURSIVE G(_)
        G(i) ==
            IF i > Len(segs) THEN <<>>
            ELSE IF i = Len(segs) THEN segs[i]
            ELSE segs[i] \o <<sep>> \o G(i + 1)
    IN  G(1)

StartsWith(s, pre) ==
    /\ Len(s) >= Len(pre)
    /\ SubSeq(s, 1, Len(pre)) = pre

EndsWith(s, suf) ==
    /\ Len(s) >= Len(suf)
    /\ SubSeq(s, Len(s) - Len(suf) + 1, Len(s)) = suf

DotHtml == <<".", "h", "t", "m", "l">>

\* s.replace(/\.html$/, '')
StripHtmlExt(s) ==
    IF EndsWith(s, DotHtml) THEN SubSeq(s, 1, Len(s) - Len(DotHtml)) ELSE s

\* s.replace(/^\/|\/$/g, ''): one leading and one trailing slash are removed.
StripSlashes(s) ==
    LET a == IF StartsWith(s, <<"/">>) THEN SubSeq(s, 2, Len(s)) ELSE s
    IN  IF EndsWith(a, <<"/">>) THEN SubSeq(a, 1, Len(a) - 1) ELSE a

(***************************************************************************)
(* path.join of Node (posix): the non-empty arguments are joined with "/"  *)
(* and the result is normalised ("" and "." segments dropped, ".."         *)
(* resolved against the segment before it).                                *)
(***************************************************************************)
Dot == <<".">>
DotDot == <<".", ".">>

NormalizeSegs(segs, isAbs) ==
    LET RECURSIVE N(_, _)
        N(i, acc) ==
            IF i > Len(segs) THEN acc
            ELSE IF segs[i] = <<>> \/ segs[i] = Dot THEN N(i + 1, acc)
            ELSE IF segs[i] = DotDot
                 THEN IF acc # <<>> /\ acc[Len(acc)] # DotDot
                      THEN N(i + 1, SubSeq(acc, 1, Len(acc) - 1))
                      ELSE IF isAbs THEN N(i + 1, acc)
                      ELSE N(i + 1, Append(acc, DotDot))
            ELSE N(i + 1, Append(acc, segs[i]))
    IN  N(1, <<>>)

PathNormalize(p) ==
    LET isAbs == StartsWith(p, <<"/">>)
        trailing == EndsWith(p, <<"/">>)
        body == JoinWith(NormalizeSegs(Split(p, "/"), isAbs), "/")
        tail == IF body # <<>> /\ trailing THEN <<"/">> ELSE <<>>
    IN  IF body = <<>> /\ ~isAbs THEN Dot
        ELSE (IF isAbs THEN <<"/">> ELSE <<>>) \o body \o tail

PathJoin(args) ==
    LET given == SelectSeq(args, LAMBDA a : a # <<>>)
    IN  IF given = <<>> THEN Dot ELSE PathNormalize(JoinWith(given, "/"))

\* path.dirname(p) of a normalised path
PathDirname(p) ==
    LET segs == Split(p, "/")
    IN  IF Len(segs) <= 1 THEN Dot
        ELSE LET d == JoinWith(SubSeq(segs, 1, Len(segs) - 1), "/")
             IN  IF d = <<>> THEN <<"/">> ELSE d

(***************************************************************************)
(* resolveOutput(relFile, frontmatter, outputPath)                         *)
(*                                                                         *)
(* The front-matter is the record [permalink |-> <string>]; the empty      *)
(* string stands for a missing (or empty) permalink: both are falsy at     *)
(* the test `if (frontmatter.permalink)`.                                  *)
(***************************************************************************)
IndexName == <<"i", "n", "d", "e", "x">>
IndexHtml == IndexName \o DotHtml

\* The permalink branch with the slashes left in place.
resolvePermalinkUnstripped(frontmatter, outputPath) ==
    [url |-> <<"/">> \o frontmatter.permalink \o <<"/">>,
     outputFile |-> PathJoin(<<outputPath, frontmatter.permalink, IndexHtml>>)]

resolvePermalink(frontmatter, outputPath) ==
    LET permalink == StripSlashes(frontmatter.permalink)
    IN  [url |-> <<"/">> \o permalink \o <<"/">>,
         outputFile |-> PathJoin(<<outputPath, permalink, IndexHtml>>)]

\* The name branch without the special case of index.
resolveByNameNoIndex(relFile, outputPath) ==
    LET parts == Split(relFile, "/")
        campaignSlug == parts[1]
        filename == StripHtmlExt(parts[Len(parts)])
    IN  [url |-> <<"/">> \o campaignSlug \o <<"/">> \o filename \o <<"/">>,
         outputFile |-> PathJoin(<<outputPath, campaignSlug, filename, IndexHtml>>)]

resolveByName(relFile, outputPath) ==
    LET parts == Split(relFile, "/")
        campaignSlug == parts[1]
        filename == StripHtmlExt(parts[Len(parts)])
    IN  IF filename = IndexName
        THEN [url |-> <<"/">> \o campaignSlug \o <<"/">>,
              outputFile |-> PathJoin(<<outputPath, campaignSlug, IndexHtml>>)]
        ELSE [url |-> <<"/">> \o campaignSlug \o <<"/">> \o filename \o <<"/">>,
              outputFile |-> PathJoin(<<outputPath, campaignSlug, filename, IndexHtml>>)]

resolveOutput(relFile, frontmatter, outputPath) ==
    IF frontmatter.permalink # <<>>
    THEN resolvePermalink(frontmatter, outputPath)
    ELSE resolveByName(relFile, outputPath)

(***************************************************************************)
(* Bounds of the model.                                                    *)
(***************************************************************************)
\* Watcher events delivered to one server instance.
MaxEvents == 3
\* Reload-channel connections that may be open at once.
MaxClients == 2
\* Length of an explicit opts.files list.
MaxFiles == 2
\* Versions a source file goes through while the dev server watches it.
MaxVer == 2

(***************************************************************************)
(* The strings of the model.                                               *)
(***************************************************************************)
outputPath == <<"/", "o", "u", "t">>
SlugA == <<"a">>
SlugB == <<"b">>
SlugX == <<"x">>
AboutName == <<"a", "b", "o", "u", "t">>
SubDir == <<"s", "u", "b">>
LayoutsDir == <<"_", "l", "a", "y", "o", "u", "t", "s">>
IncludesDir == <<"_", "i", "n", "c", "l", "u", "d", "e", "s">>
AssetsDir == <<"a", "s", "s", "e", "t", "s">>
BaseHtml == <<"b", "a", "s", "e">> \o DotHtml
StyleCss == <<"s", "t", "y", "l", "e", ".", "c", "s", "s">>

Rel(segs) == JoinWith(segs, "/")

PageIndexA == Rel(<<SlugA, IndexHtml>>)
PageAboutA == Rel(<<SlugA, AboutName \o DotHtml>>)
PageSubAboutA == Rel(<<SlugA, SubDir, AboutName \o DotHtml>>)
PageIndexX == Rel(<<SlugX, IndexHtml>>)
LayoutA == Rel(<<SlugA, LayoutsDir, BaseHtml>>)
AssetStyleA == Rel(<<SlugA, AssetsDir, StyleCss>>)
IncludeIconA == Rel(<<SlugA, IncludesDir, <<"i", "c", "o", "n", ".", "s", "v", "g">>>>)
AssetAboutA == Rel(<<SlugA, AssetsDir, AboutName>>)
AssetIndexA == Rel(<<SlugA, AssetsDir, IndexHtml>>)
AssetStyleB == Rel(<<SlugB, AssetsDir, StyleCss>>)

(***************************************************************************)
(* State.                                                                  *)
(***************************************************************************)
VARIABLES
    \* resolveOutput called on its own
    relFile, frontmatter, result,
    \* the file system
    src,            \* source root: relative path -> [ver, kind, permalink]
    out,            \* output root: absolute path -> [from, ver, layout, as],
                    \* or -> [content, readable] where the server reads it
    \* one call of build()
    bpc,            \* where the call is: none, discover, loop, render,
                    \* assets, done, thrown
    campaigns,      \* opts.campaigns
    files,          \* the list the page loop iterates
    ordered,        \* FALSE when the list came from fast-glob
    seen,           \* the positions of files the loop is done with
    cur,            \* the page whose renderPage is awaited
    built, errors,  \* the counters of build()
    k,              \* position of the asset loop in campaigns
    \* serve(): the closure of one server instance
    listening,      \* serve() has been called: the server and the watcher run
    rebuilding,     \* the busy flag
    sseClients,     \* the Set of open reload-channel responses
    sent,           \* per connection: the reload messages written to it
    \* the rebuild callback, as serve() sees it
    inflight,       \* invocations of onRebuild that have not settled
    calls,          \* the changed paths onRebuild was invoked with
    \* the environment of serve()
    pending,        \* changes of the source tree chokidar has yet to report
    events,         \* the watcher events delivered to handleChange
    failures,       \* invocations of onRebuild that threw or rejected
    escaped,        \* an exception left handleChange (its promise rejected)
    snap,           \* the source tree when the rebuild in flight began
    \* renderPage called on its own
    body,           \* the page body, parsed
    data,           \* the front-matter of the page
    campaignData,   \* opts.campaign: the campaign entry, or undefined
    layoutSrc,      \* null or the layout source
    partials,       \* the files below _includes: path -> [kind, tpl]
    html,           \* what renderPage settled with
    \* the HTTP side of serve()
    conns,          \* the connections to /_lr that are open
    res,            \* the last response of the static handler, with its URL
    \* the process
    run,            \* 1 and 2 for two calls of build() in a row, else 0
    outBefore,      \* the output root when the second of the two began
    exited          \* process.exit() was called

resolveVars == <<relFile, frontmatter, result>>
fsVars == <<src, out>>
buildVars == <<bpc, campaigns, files, ordered, seen, cur, built, errors, k>>
serveVars == <<listening, rebuilding, sseClients, sent>>
callbackVars == <<inflight, calls>>
envVars == <<pending, events, failures, escaped, snap>>
renderVars == <<body, data, campaignData, layoutSrc, partials, html>>
httpVars == <<conns, res>>
processVars == <<run, outBefore, exited>>
vars == <<processVars, resolveVars, renderVars, httpVars, fsVars, buildVars, serveVars, callbackVars, envVars>>

Clients == 1 .. MaxClients

NoResult == [url |-> <<>>, outputFile |-> <<>>]
NoPage == [relFile |-> <<>>, pos |-> 0, to |-> NoResult, ver |-> 0, kind |-> "none", layout |-> 0]
EmptyDir == <<>>

\* The values of the variables a specification does not use.
ResolveUnused ==
    /\ relFile = <<>>
    /\ frontmatter = [permalink |-> <<>>]
    /\ result = NoResult

RenderUnused ==
    /\ body = <<>>
    /\ data = <<>>
    /\ campaignData = <<>>
    /\ layoutSrc = <<>>
    /\ partials = <<>>
    /\ html = <<>>

NoResponse == [url |-> <<>>, status |-> 0, type |-> "", body |-> <<>>]

\* No connection is open and no request was made.
HttpUnused ==
    /\ conns = {}
    /\ res = NoResponse

\* One call of build() at most, in a process that runs.
ProcessUnused ==
    /\ run = 0
    /\ outBefore = EmptyDir
    /\ exited = FALSE

BuildUnused ==
    /\ bpc = "none"
    /\ campaigns = <<>>
    /\ files = <<>>
    /\ ordered = TRUE
    /\ seen = {}
    /\ cur = NoPage
    /\ built = 0
    /\ errors = 0
    /\ k = 0

FsUnused ==
    /\ src = EmptyDir
    /\ out = EmptyDir

\* The closure of serve() right after the call, and before it.
ServeIdle ==
    /\ rebuilding = FALSE
    /\ sseClients = {}
    /\ sent = [c \in Clients |-> 0]
    /\ inflight = 0
    /\ calls = <<>>
    /\ pending = <<>>
    /\ events = <<>>
    /\ failures = 0
    /\ escaped = FALSE
    /\ snap = EmptyDir

ServeInit == listening = TRUE /\ ServeIdle

ServeUnused == listening = FALSE /\ ServeIdle

(***************************************************************************)
(* The file system, as build() uses it.  A directory exists when a file    *)
(* lies beneath it.                                                        *)
(***************************************************************************)
IsProperAncestor(p, q) ==
    /\ Len(q) > Len(p) + 1
    /\ SubSeq(q, 1, Len(p)) = p
    /\ q[Len(p) + 1] = "/"

IsFile(fs, p) == p \in DOMAIN fs

IsDirectory(fs, p) == \E q \in DOMAIN fs : IsProperAncestor(p, q)

\* fs.existsSync(p)
existsSync(fs, p) == IsFile(fs, p) \/ IsDirectory(fs, p)

FsPut(fs, p, v) == [q \in DOMAIN fs \cup {p} |-> IF q = p THEN v ELSE fs[q]]

\* A copy that leaves the files that are there as they are.
FsPutAllKeep(fs, g) == [q \in DOMAIN fs \cup DOMAIN g |-> IF q \in DOMAIN fs THEN fs[q] ELSE g[q]]

FsPutAll(fs, g) == [q \in DOMAIN fs \cup DOMAIN g |-> IF q \in DOMAIN g THEN g[q] ELSE fs[q]]

FsRemove(fs, p) == [q \in DOMAIN fs \ {p} |-> fs[q]]

Range(f) == {f[x] : x \in DOMAIN f}

SetToSeq(S) == CHOOSE f \in [1 .. Cardinality(S) -> S] : Range(f) = S

\* fs.mkdirSync(dir, {recursive: true}) throws when a file is in the way.
mkdirThrows(fs, dir) ==
    \/ IsFile(fs, dir)
    \/ \E q \in DOMAIN fs : IsProperAncestor(q, dir)

\* fs.writeFileSync(file) throws when the path is a directory.
writeFileThrows(fs, file) == IsDirectory(fs, file)

(***************************************************************************)
(* build(opts)                                                             *)
(***************************************************************************)
\* opts.files: undefined, or a list of paths relative to the source root.
Undefined == [given |-> FALSE, list |-> <<>>]

Files(list) == [given |-> TRUE, list |-> list]

Registry == <<[name |-> "A", slug |-> SlugA], [name |-> "B", slug |-> SlugB]>>

\* fg('**/*.html', {cwd: srcPath, ignore: ['**/_layouts/**', '**/_includes/**']}):
\* the pages below the source root, in no guaranteed order.
Discovered(fs) ==
    {p \in DOMAIN fs :
        LET parts == Split(p, "/")
        IN  /\ EndsWith(p, DotHtml)
            /\ \A i \in 1 .. Len(parts) : ~StartsWith(parts[i], Dot)
            /\ \A i \in 1 .. Len(parts) - 1 :
                   parts[i] # LayoutsDir /\ parts[i] # IncludesDir}

\* campaigns.find(c => c.slug === campaignSlug)
HasCampaign(slug) == \E i \in 1 .. Len(campaigns) : campaigns[i].slug = slug

\* Where the call goes once the positions in s are done with.
AfterPages(s, n, m) ==
    IF s # 1 .. n THEN "loop"
    ELSE IF m = 0 THEN "done" ELSE "assets"

\* build(opts) up to its first await.
build(optCampaigns, optFiles) ==
    /\ campaigns' = optCampaigns
    /\ built' = 0
    /\ errors' = 0
    /\ seen' = {}
    /\ cur' = NoPage
    /\ k' = 1
    /\ IF ~optFiles.given
       THEN /\ bpc' = "discover"
            /\ files' = <<>>
            /\ ordered' = FALSE
       ELSE /\ bpc' = AfterPages({}, Len(optFiles.list), Len(optCampaigns))
            /\ files' = optFiles.list
            /\ ordered' = TRUE

\* `await fg(...)` has returned the list.
Discover ==
    /\ bpc = "discover"
    /\ ~exited
    /\ files' = SetToSeq(Discovered(src))
    /\ bpc' = AfterPages({}, Cardinality(Discovered(src)), Len(campaigns))
    /\ UNCHANGED <<campaigns, ordered, seen, cur, built, errors, k>>
    /\ UNCHANGED <<processVars, resolveVars, renderVars, httpVars, fsVars, serveVars, callbackVars, envVars>>

\* The position the loop takes next: the first one left of an explicit
\* list, any one left of a discovered list.
IsNext(i) ==
    /\ i \in (1 .. Len(files)) \ seen
    /\ ordered => \A j \in (1 .. Len(files)) \ seen : i <= j

\* A catch block that rethrows: the failure ends build().
FileFailedAborts(i) ==
    /\ errors' = errors + 1
    /\ seen' = seen \cup {i}
    /\ bpc' = "thrown"
    /\ cur' = NoPage
    /\ UNCHANGED <<built, out>>

\* The catch block of the loop: the error is logged and counted.
FileFailed(i) ==
    /\ errors' = errors + 1
    /\ seen' = seen \cup {i}
    /\ bpc' = AfterPages(seen \cup {i}, Len(files), Len(campaigns))
    /\ cur' = NoPage
    /\ UNCHANGED <<built, out>>

\* `continue` for a page of no campaign.
FileSkipped(i) ==
    /\ seen' = seen \cup {i}
    /\ bpc' = AfterPages(seen \cup {i}, Len(files), Len(campaigns))
    /\ cur' = NoPage
    /\ UNCHANGED <<built, errors, out>>

\* fs.readFileSync(filePath) or matter(raw) throws.
ReadThrows(f) == ~IsFile(src, f) \/ src[f].kind = "badfm"

\* One iteration of the page loop up to `await renderPage(...)`.
ReadFile(i) ==
    /\ bpc = "loop"
    /\ ~exited
    /\ IsNext(i)
    /\ LET f == files[i]
           campaignSlug == Split(f, "/")[1]
           layoutPath == Rel(<<campaignSlug, LayoutsDir, BaseHtml>>)
       IN  IF ReadThrows(f) THEN FileFailed(i)
           ELSE IF ~HasCampaign(campaignSlug) THEN FileSkipped(i)
           ELSE /\ cur' = [relFile |-> f,
                           pos |-> i,
                           to |-> resolveOutput(f, [permalink |-> src[f].permalink], outputPath),
                           ver |-> src[f].ver,
                           kind |-> src[f].kind,
                           layout |-> IF existsSync(src, layoutPath)
                                      THEN src[layoutPath].ver ELSE 0]
                /\ bpc' = "render"
                /\ UNCHANGED <<seen, built, errors, out>>
    /\ UNCHANGED <<campaigns, files, ordered, k, src>>
    /\ UNCHANGED <<processVars, resolveVars, renderVars, httpVars, serveVars, callbackVars, envVars>>

\* An iteration that counts the page as built before it is written, so
\* that a failed write counts twice.
WriteFileCountsFirst ==
    /\ bpc = "render"
    /\ ~exited
    /\ IF \/ cur.kind = "badtpl"
          \/ mkdirThrows(out, PathDirname(cur.to.outputFile))
          \/ writeFileThrows(out, cur.to.outputFile)
       THEN /\ errors' = errors + 1
            /\ built' = built + 1
            /\ seen' = seen \cup {cur.pos}
            /\ bpc' = AfterPages(seen \cup {cur.pos}, Len(files), Len(campaigns))
            /\ cur' = NoPage
            /\ UNCHANGED out
       ELSE /\ out' = FsPut(out, cur.to.outputFile,
                            [from |-> cur.relFile, ver |-> cur.ver,
                             layout |-> cur.layout, as |-> "page"])
            /\ built' = built + 1
            /\ seen' = seen \cup {cur.pos}
            /\ bpc' = AfterPages(seen \cup {cur.pos}, Len(files), Len(campaigns))
            /\ cur' = NoPage
            /\ UNCHANGED errors
    /\ UNCHANGED <<campaigns, files, ordered, k, src>>
    /\ UNCHANGED <<processVars, resolveVars, renderVars, httpVars, serveVars, callbackVars, envVars>>

\* The rest of the iteration: renderPage has settled; the page is written.
WriteFile ==
    /\ bpc = "render"
    /\ ~exited
    /\ IF \/ cur.kind = "badtpl"
          \/ mkdirThrows(out, PathDirname(cur.to.outputFile))
          \/ writeFileThrows(out, cur.to.outputFile)
       THEN FileFailed(cur.pos)
       ELSE /\ out' = FsPut(out, cur.to.outputFile,
                            [from |-> cur.relFile, ver |-> cur.ver,
                             layout |-> cur.layout, as |-> "page"])
            /\ built' = built + 1
            /\ seen' = seen \cup {cur.pos}
            /\ bpc' = AfterPages(seen \cup {cur.pos}, Len(files), Len(campaigns))
            /\ cur' = NoPage
            /\ UNCHANGED errors
    /\ UNCHANGED <<campaigns, files, ordered, k, src>>
    /\ UNCHANGED <<processVars, resolveVars, renderVars, httpVars, serveVars, callbackVars, envVars>>

\* The files of <slug>/assets and where fs.promises.cp puts each.
AssetFiles(slug) ==
    {p \in DOMAIN src : IsProperAncestor(Rel(<<slug, AssetsDir>>), p)}

AssetDest(slug, p) ==
    LET assetSrc == Rel(<<slug, AssetsDir>>)
    IN  PathJoin(<<outputPath, slug, SubSeq(p, Len(assetSrc) + 2, Len(p))>>)

\* cp throws for a file whose destination is a directory, and for a
\* directory whose destination is a file.
cpThrows(slug, p) ==
    \/ IsDirectory(out, AssetDest(slug, p))
    \/ mkdirThrows(out, PathDirname(AssetDest(slug, p)))

Copies(slug, S) ==
    [d \in {AssetDest(slug, p) : p \in S} |->
        LET p == CHOOSE q \in S : AssetDest(slug, q) = d
        IN  [from |-> p, ver |-> src[p].ver, layout |-> 0, as |-> "asset"]]

\* The test, narrowed to the campaigns a page was written for in this call.
assetsExistAndPageBuilt(slug) ==
    /\ existsSync(src, Rel(<<slug, AssetsDir>>))
    /\ \E d \in DOMAIN out :
           out[d].as = "page" /\ Split(out[d].from, "/")[1] = slug

\* fs.existsSync(assetSrc)
assetsExist(slug) == existsSync(src, Rel(<<slug, AssetsDir>>))

\* One iteration of the asset loop for a campaign without assets.
AssetStepNone(slug) ==
    /\ k' = k + 1
    /\ bpc' = IF k = Len(campaigns) THEN "done" ELSE "assets"
    /\ UNCHANGED out

\* One iteration of the asset loop, `await fs.promises.cp(...)` included.
\* When cp throws, the files it had copied before stay copied: any of the
\* files that can be copied, since cp takes them in directory order.
CopyAssets ==
    /\ bpc = "assets"
    /\ ~exited
    /\ LET slug == campaigns[k].slug
       IN  IF ~assetsExist(slug)
           THEN AssetStepNone(slug)
           ELSE IF \E p \in AssetFiles(slug) : cpThrows(slug, p)
           THEN /\ \E S \in SUBSET {p \in AssetFiles(slug) : ~cpThrows(slug, p)} :
                       out' = FsPutAll(out, Copies(slug, S))
                /\ bpc' = "thrown"
                /\ UNCHANGED k
           ELSE /\ out' = FsPutAll(out, Copies(slug, AssetFiles(slug)))
                /\ k' = k + 1
                /\ bpc' = IF k = Len(campaigns) THEN "done" ELSE "assets"
    /\ UNCHANGED <<campaigns, files, ordered, seen, cur, built, errors, src>>
    /\ UNCHANGED <<processVars, resolveVars, renderVars, httpVars, serveVars, callbackVars, envVars>>


(***************************************************************************)
(* The template engine: values, the render context and its scope stack,    *)
(* as createEngine() and renderPage() use them.                            *)
(***************************************************************************)
\* Values of a render context: undefined, strings, booleans, objects.
Nil == [t |-> "nil", s |-> <<>>, o |-> <<>>]

Str(s) == [t |-> "str", s |-> s, o |-> <<>>]

Bool(b) == [t |-> "bool", s |-> IF b THEN <<"t", "r", "u", "e">> ELSE <<"f", "a", "l", "s", "e">>, o |-> <<>>]

Obj(o) == [t |-> "obj", s |-> <<>>, o |-> o]

\* JavaScript truthiness, as `if (!filename)`, `if (!campaign)` and
\* `if (layoutSrc)` test it.
Truthy(v) ==
    CASE v.t = "nil" -> FALSE
      [] v.t = "str" -> v.s # <<>>
      [] v.t = "bool" -> v.s = <<"t", "r", "u", "e">>
      [] OTHER -> TRUE

\* What an output statement writes for a value.
stringify(v) == IF v.t = "obj" THEN <<"[", "o", "b", "j", "e", "c", "t", " ", "O", "b", "j", "e", "c", "t", "]">> ELSE v.s

EmptyScope == [x \in {} |-> Nil]

CampaignKey == <<"c", "a", "m", "p", "a", "i", "g", "n">>
PageKey == <<"p", "a", "g", "e">>
ContentKey == <<"c", "o", "n", "t", "e", "n", "t">>
IncludeKey == <<"i", "n", "c", "l", "u", "d", "e">>
SlugKey == <<"s", "l", "u", "g">>
NameKey == <<"n", "a", "m", "e">>
UrlKey == <<"u", "r", "l">>

\* Context.findScope(key): the topmost scope of the stack that has the key,
\* else the scope the render was started with.
findScope(ctx, key) ==
    LET hits == {i \in 1 .. Len(ctx.scopes) : key \in DOMAIN ctx.scopes[i]}
    IN  IF hits # {}
        THEN ctx.scopes[CHOOSE i \in hits : \A j \in hits : j <= i]
        ELSE ctx.environments

\* Context.get(path), for paths of one or two names.
ctxGet(ctx, path) ==
    LET scope == findScope(ctx, path[1])
        v == IF path[1] \in DOMAIN scope THEN scope[path[1]] ELSE Nil
    IN  IF Len(path) = 1 THEN v
        ELSE IF v.t = "obj" /\ path[2] \in DOMAIN v.o THEN v.o[path[2]]
        ELSE Nil

\* /^https?:\/\//.test(filename)
IsHttpUrl(s) == StartsWith(s, <<"h", "t", "t", "p", ":", "/", "/">>) \/ StartsWith(s, <<"h", "t", "t", "p", "s", ":", "/", "/">>)

SlugPrefix(campaign) == <<"/">> \o stringify(campaign.o[SlugKey]) \o <<"/">>

\* The campaign_asset filter.
campaign_asset(filename, ctx) ==
    IF ~Truthy(filename) THEN Str(<<>>)
    ELSE IF IsHttpUrl(filename.s) THEN filename
    ELSE LET campaign == ctxGet(ctx, <<CampaignKey>>)
         IN  IF ~Truthy(campaign) THEN filename
             ELSE Str(SlugPrefix(campaign) \o filename.s)

\* The campaign_link filter.
campaign_link(filename, ctx) ==
    IF ~Truthy(filename) THEN Str(<<>>)
    ELSE IF StartsWith(filename.s, <<"#">>) THEN filename
    ELSE IF StartsWith(filename.s, <<"/">>) THEN filename
    ELSE IF IsHttpUrl(filename.s) THEN filename
    ELSE LET campaign == ctxGet(ctx, <<CampaignKey>>)
             clean == StripHtmlExt(filename.s)
         IN  IF ~Truthy(campaign) THEN filename
             ELSE IF clean = IndexName THEN Str(SlugPrefix(campaign))
             ELSE Str(SlugPrefix(campaign) \o clean \o <<"/">>)

applyFilter(name, v, ctx) ==
    CASE name = "campaign_asset" -> campaign_asset(v, ctx)
      [] name = "campaign_link" -> campaign_link(v, ctx)
      [] OTHER -> v

(***************************************************************************)
(* The campaign_include tag.                                               *)
(***************************************************************************)
\* \s and \w, over the characters the templates of the model use.
WhiteSpace == {" "}

WordChars == {"a", "b", "c", "d", "e", "f", "g", "h", "i", "j", "k", "l", "m", "n", "o", "p", "q", "r", "s", "t", "u", "v", "w", "x", "y", "z", "A", "T", "W", "0", "1", "2", "3", "4", "5", "6", "7", "8", "9", "_"}

Quotes == {"'", "\""}

\* The first position from i on whose character is in C, or 0.
FirstIn(s, i, C) ==
    LET hits == {j \in i .. Len(s) : s[j] \in C}
    IN  IF hits = {} THEN 0 ELSE CHOOSE j \in hits : \A h \in hits : j <= h

\* The first position from i on whose character is not in C, or Len(s) + 1.
RunEnd(s, i, C) ==
    LET stops == {j \in i .. Len(s) : s[j] \notin C}
    IN  IF stops = {} THEN Len(s) + 1
        ELSE CHOOSE j \in stops : \A h \in stops : j <= h

\* this.args.match(/^\s*(['"])([^'"]+)\1/): match[2], or <<>> for no match.
MatchFilename(args) ==
    LET i == RunEnd(args, 1, WhiteSpace)
        j == FirstIn(args, i + 1, Quotes)
    IN  IF /\ i <= Len(args)
           /\ args[i] \in Quotes
           /\ j > i + 1
           /\ args[j] = args[i]
        THEN SubSeq(args, i + 1, j - 1)
        ELSE <<>>

\* Where a match of ("[^"]*"|'[^']*'|[^\s]+) that starts at v ends
\* (exclusive); v itself when there is none.
RawValueEnd(s, v) ==
    IF v > Len(s) THEN v
    ELSE IF s[v] \in Quotes /\ FirstIn(s, v + 1, {s[v]}) # 0
         THEN FirstIn(s, v + 1, {s[v]}) + 1
         ELSE RunEnd(s, v, {s[j] : j \in 1 .. Len(s)} \ WhiteSpace)

\* /(\w+)=("[^"]*"|'[^']*'|[^\s]+)/ matches at position p.
ArgAt(s, p) ==
    LET e == RunEnd(s, p, WordChars)
    IN  /\ s[p] \in WordChars
        /\ e <= Len(s)
        /\ s[e] = "="
        /\ RawValueEnd(s, e + 1) > e + 1

\* The matches argsRegex.exec finds from position i on, in order.
RECURSIVE ParseArgs(_, _)
ParseArgs(s, i) ==
    LET starts == {p \in i .. Len(s) : ArgAt(s, p)}
    IN  IF starts = {} THEN <<>>
        ELSE LET p == CHOOSE q \in starts : \A h \in starts : q <= h
                 e == RunEnd(s, p, WordChars)
                 w == RawValueEnd(s, e + 1)
             IN  <<[key |-> SubSeq(s, p, e - 1), rawValue |-> SubSeq(s, e + 1, w - 1)]>>
                     \o ParseArgs(s, w)

Digits == {"0", "1", "2", "3", "4", "5", "6", "7", "8", "9"}

\* engine.evalValue(rawValue, ctx) for a number or a variable path.
evalValue(rawValue, ctx) ==
    IF \A j \in 1 .. Len(rawValue) : rawValue[j] \in Digits THEN Str(rawValue)
    ELSE LET path == Split(rawValue, ".")
         IN  IF Len(path) <= 2 /\ \A j \in 1 .. Len(path) : path[j] # <<>>
             THEN ctxGet(ctx, path)
             ELSE Nil

\* The value of one argument.
ArgValue(rawValue, ctx) ==
    IF rawValue[1] \in Quotes THEN Str(SubSeq(rawValue, 2, Len(rawValue) - 1))
    ELSE IF rawValue = <<"t", "r", "u", "e">> THEN Bool(TRUE)
    ELSE IF rawValue = <<"f", "a", "l", "s", "e">> THEN Bool(FALSE)
    ELSE evalValue(rawValue, ctx)

\* includeCtx after the loop over the matches: a later key overwrites.
RECURSIVE IncludeCtx(_, _)
IncludeCtx(pairs, ctx) ==
    IF pairs = <<>> THEN EmptyScope
    ELSE LET last == pairs[Len(pairs)]
         IN  (last.key :> ArgValue(last.rawValue, ctx))
                 @@ IncludeCtx(SubSeq(pairs, 1, Len(pairs) - 1), ctx)

\* A scope with the arguments only, without the include container.
IncludeScopeFlat(includeCtx) == includeCtx

\* ctx.push({ ...includeCtx, include: includeCtx })
IncludeScope(includeCtx) == (IncludeKey :> Obj(includeCtx)) @@ includeCtx

\* A pop that removes nothing.
popNothing(scopes) == scopes

\* Context.pop(): Array.prototype.pop, which leaves an empty stack empty.
pop(scopes) ==
    IF scopes = <<>> THEN <<>> ELSE SubSeq(scopes, 1, Len(scopes) - 1)

\* `${campaign.slug}/_includes/${filename}`
IncludePath(campaign, filename) ==
    stringify(campaign.o[SlugKey]) \o <<"/">> \o IncludesDir \o <<"/">> \o filename

(***************************************************************************)
(* Rendering.  A template is the sequence of its parsed parts: text, an    *)
(* output {{ ... }} of a literal or a variable with an optional filter,    *)
(* {% assign %} of a literal, and {% campaign_include ... %} with its raw  *)
(* arguments.                                                              *)
(***************************************************************************)
Text(s) == [k |-> "text", s |-> s, lit |-> TRUE, path |-> <<>>, filter |-> "none"]

Output(path) == [k |-> "output", s |-> <<>>, lit |-> FALSE, path |-> path, filter |-> "none"]

Filtered(s, filter) == [k |-> "output", s |-> s, lit |-> TRUE, path |-> <<>>, filter |-> filter]

FilteredVar(path, filter) == [k |-> "output", s |-> <<>>, lit |-> FALSE, path |-> path, filter |-> filter]

Assign(key, s) == [k |-> "assign", s |-> s, lit |-> TRUE, path |-> <<key>>, filter |-> "none"]

CampaignInclude(args) == [k |-> "campaign_include", s |-> args, lit |-> TRUE, path |-> <<>>, filter |-> "none"]

\* engine.parseFile(fullPath) throws: no such file, or a syntax error in it.
parseFileThrows(fullPath) ==
    fullPath \notin DOMAIN partials \/ partials[fullPath].kind # "ok"

\* The context a render starts with: one empty scope on the stack.
NewContext(scope) ==
    [scopes |-> <<EmptyScope>>, environments |-> scope, out |-> <<>>, thrown |-> FALSE]

RECURSIVE renderTemplates(_, _)
RECURSIVE renderTag(_, _)
\* render() of the campaign_include tag.
renderTag(args, ctx) ==
    LET campaign == ctxGet(ctx, <<CampaignKey>>)
        filename == MatchFilename(args)
    IN  IF ~Truthy(campaign) THEN ctx
        ELSE IF filename = <<>> THEN ctx
        ELSE LET fullPath == IncludePath(campaign, filename)
                 includeCtx == IncludeCtx(ParseArgs(args, 1), ctx)
                 pushed == [ctx EXCEPT !.scopes = Append(@, IncludeScope(includeCtx))]
                 tried == IF parseFileThrows(fullPath) THEN ctx
                          ELSE renderTemplates(partials[fullPath].tpl, pushed)
             IN  [tried EXCEPT !.thrown = FALSE, !.scopes = pop(@)]

\* One part of a template rendered into the emitter.
renderToken(tok, ctx) ==
    CASE tok.k = "text" -> [ctx EXCEPT !.out = @ \o tok.s]
      [] tok.k = "output" ->
            LET v == IF tok.lit THEN Str(tok.s) ELSE ctxGet(ctx, tok.path)
            IN  [ctx EXCEPT !.out = @ \o stringify(applyFilter(tok.filter, v, ctx))]
      [] tok.k = "assign" ->
            \* ctx.bottom()[key] = value: a TypeError when the stack is empty
            IF ctx.scopes = <<>> THEN [ctx EXCEPT !.thrown = TRUE]
            ELSE [ctx EXCEPT !.scopes[1] = (tok.path[1] :> Str(tok.s)) @@ @]
      [] OTHER -> renderTag(tok.s, ctx)

\* renderer.renderTemplates(templates, ctx, emitter): stops at a throw.
renderTemplates(templates, ctx) ==
    IF templates = <<>> \/ ctx.thrown THEN ctx
    ELSE renderTemplates(Tail(templates), renderToken(Head(templates), ctx))

NoHtml == [status |-> "none", s |-> <<>>]

\* engine.parseAndRender(template, scope), settled.
parseAndRender(template, scope) ==
    LET ctx == renderTemplates(template, NewContext(scope))
    IN  IF ctx.thrown THEN [status |-> "rejected", s |-> <<>>]
        ELSE [status |-> "resolved", s |-> ctx.out]

\* layoutSrc: null, or the source of the layout file.
Null == [isNull |-> TRUE, tpl |-> <<>>]

Source(tpl) == [isNull |-> FALSE, tpl |-> tpl]

\* The context of renderPage: { ...frontmatter, campaign, page: pageData }.
PageContext(pFrontmatter, pCampaign, pageData) ==
    (CampaignKey :> pCampaign @@ PageKey :> pageData) @@ pFrontmatter

\* A layout context that holds the rendered body and nothing else.
LayoutContextFresh(context, renderedBody) == ContentKey :> Str(renderedBody)

\* The context of pass 2: { ...context, content: renderedBody }.
LayoutContext(context, renderedBody) == (ContentKey :> Str(renderedBody)) @@ context

\* renderPage(engine, { body, frontmatter, campaign, pageData, layoutSrc }):
\* `if (layoutSrc)` is false for null and for the empty string.
renderPage(pBody, pFrontmatter, pCampaign, pageData, pLayoutSrc) ==
    LET context == PageContext(pFrontmatter, pCampaign, pageData)
        renderedBody == parseAndRender(pBody, context)
    IN  IF renderedBody.status = "rejected" THEN renderedBody
        ELSE IF ~pLayoutSrc.isNull /\ pLayoutSrc.tpl # <<>>
             THEN parseAndRender(pLayoutSrc.tpl, LayoutContext(context, renderedBody.s))
             ELSE renderedBody
(***************************************************************************)
(* serve(): the reload channel and the watcher handler.                    *)
(*                                                                         *)
(* Every handler of the server runs to completion before the next one      *)
(* starts, so each action below is one handler, or the part of             *)
(* handleChange between two awaits.                                        *)
(***************************************************************************)
srcPath == <<"/", "s", "r", "c">>

\* The path chokidar reports for a file of the watched directory.
Watched(rel) == PathJoin(<<srcPath, rel>>)

\* GET /_lr: the response joins the Set (a new connection has no messages).
SseConnect(c) ==
    /\ listening
    /\ c \notin conns
    /\ bpc \notin {"done", "thrown"}
    /\ sseClients' = sseClients \cup {c}
    /\ sent' = [sent EXCEPT ![c] = 0]
    /\ conns' = conns \cup {c}
    /\ UNCHANGED <<listening, rebuilding, res, processVars, resolveVars, renderVars, fsVars, buildVars, callbackVars, envVars>>

\* A close of the connection that leaves the response in the Set.
SseCloseKeeps(c) ==
    /\ listening
    /\ c \in conns
    /\ bpc \notin {"done", "thrown"}
    /\ conns' = conns \ {c}
    /\ UNCHANGED <<listening, rebuilding, sseClients, sent, res, processVars, resolveVars, renderVars, fsVars, buildVars, callbackVars, envVars>>

\* req.on('close'): the response leaves the Set.
SseClose(c) ==
    /\ listening
    /\ c \in conns
    /\ bpc \notin {"done", "thrown"}
    /\ sseClients' = sseClients \ {c}
    /\ conns' = conns \ {c}
    /\ UNCHANGED <<listening, rebuilding, sent, res, processVars, resolveVars, renderVars, fsVars, buildVars, callbackVars, envVars>>

\* A broadcast that stops after the first client.
reloadFirstOnly ==
    sent' = [c \in Clients |->
                IF c \in sseClients /\ \A d \in sseClients : c <= d
                THEN sent[c] + 1 ELSE sent[c]]

\* reload(): 'data: reload' is written to every response of the Set.
reload ==
    sent' = [c \in Clients |-> IF c \in sseClients THEN sent[c] + 1 ELSE sent[c]]

\* handleChange after `await onRebuild(changedPath)` has resolved:
\* reload(), then the finally block.
handleChangeResumed ==
    /\ reload
    /\ rebuilding' = FALSE
    /\ UNCHANGED <<listening, sseClients, failures, escaped>>

\* A catch block without the finally block: the flag stays set.
handleChangeCaughtSticks(e) ==
    /\ failures' = failures + 1
    /\ escaped' = (escaped \/ e = "nullish")
    /\ UNCHANGED <<listening, rebuilding, sseClients, sent>>

\* handleChange when onRebuild threw or rejected with e: the catch block
\* evaluates e.message, which itself throws a TypeError when e is null or
\* undefined; the finally block clears the flag either way, and the
\* TypeError leaves handleChange.
handleChangeCaught(e) ==
    /\ failures' = failures + 1
    /\ escaped' = (escaped \/ e = "nullish")
    /\ rebuilding' = FALSE
    /\ UNCHANGED <<listening, sseClients, sent>>

\* handleChange without its first line.
handleChangeUnguarded(changedPath, onRebuild) ==
    /\ rebuilding' = TRUE
    /\ onRebuild
    /\ UNCHANGED <<listening, sseClients, sent>>

\* handleChange(changedPath) up to `await onRebuild(changedPath)`; onRebuild
\* is the call of the callback, up to the first await inside it.
handleChange(changedPath, onRebuild) ==
    IF rebuilding
    THEN UNCHANGED <<serveVars, callbackVars, fsVars, buildVars, failures, escaped, snap>>
    ELSE /\ rebuilding' = TRUE
         /\ onRebuild
         /\ UNCHANGED <<listening, sseClients, sent>>

(***************************************************************************)
(* Spec: serve() with a rebuild callback supplied by the caller.  The      *)
(* callback is any function (changedPath) -> Promise: it settles some time *)
(* after the call, by resolving or by rejecting with a value that is an    *)
(* Error or is not (a bare reject(), `throw undefined`).                   *)
(***************************************************************************)
Rejections == {"Error", "nullish"}

EventPaths == {Watched(PageIndexA), Watched(LayoutA)}

ExternOnRebuild(changedPath) ==
    /\ inflight' = inflight + 1
    /\ calls' = Append(calls, changedPath)
    /\ UNCHANGED <<fsVars, buildVars, failures, escaped, snap>>

\* chokidar emits add, change or unlink for a path.
WatcherEvent(p) ==
    /\ Len(events) < MaxEvents
    /\ events' = Append(events, p)
    /\ handleChange(p, ExternOnRebuild(p))
    /\ UNCHANGED <<pending, processVars, resolveVars, renderVars, httpVars>>

\* The same, with a callback that throws before it returns a promise: the
\* catch and finally blocks run in the same turn.
WatcherEventThrows(p, e) ==
    /\ Len(events) < MaxEvents
    /\ ~rebuilding
    /\ events' = Append(events, p)
    /\ calls' = Append(calls, p)
    /\ handleChangeCaught(e)
    /\ UNCHANGED <<inflight, pending, snap, processVars, resolveVars, renderVars, httpVars, fsVars, buildVars>>

OnRebuildResolves ==
    /\ inflight > 0
    /\ inflight' = inflight - 1
    /\ handleChangeResumed
    /\ UNCHANGED <<calls, pending, events, snap, processVars, resolveVars, renderVars, httpVars, fsVars, buildVars>>

OnRebuildRejects(e) ==
    /\ inflight > 0
    /\ inflight' = inflight - 1
    /\ handleChangeCaught(e)
    /\ UNCHANGED <<calls, pending, events, snap, processVars, resolveVars, renderVars, httpVars, fsVars, buildVars>>

Init ==
    /\ ServeInit
    /\ ResolveUnused
    /\ RenderUnused
    /\ HttpUnused
    /\ ProcessUnused
    /\ FsUnused
    /\ BuildUnused

Next ==
    \/ \E p \in EventPaths : WatcherEvent(p)
    \/ \E p \in EventPaths, e \in Rejections : WatcherEventThrows(p, e)
    \/ OnRebuildResolves
    \/ \E e \in Rejections : OnRebuildRejects(e)
    \/ \E c \in Clients : SseConnect(c)
    \/ \E c \in Clients : SseClose(c)

Spec == Init /\ [][Next]_vars

\* The promise onRebuild returned settles.
Settles ==
    \/ OnRebuildResolves
    \/ \E e \in Rejections : OnRebuildRejects(e)

\* Spec for a callback whose promise always settles in the end.
SpecSettles == Spec /\ WF_vars(Settles)

(***************************************************************************)
(* serve(): the static file handler.                                       *)
(***************************************************************************)
\* LIVERELOAD_SCRIPT, as one unit of text.
LIVERELOAD_SCRIPT == <<"<script>(function() { new EventSource('/_lr') ... })();</script>">>

BodyClose == <<"<", "/", "b", "o", "d", "y", ">">>

\* String.prototype.toLowerCase, over the letters of the file names.
ToLowerCase(s) ==
    [i \in 1 .. Len(s) |->
        CASE s[i] = "H" -> "h" [] s[i] = "T" -> "t" [] s[i] = "M" -> "m"
          [] s[i] = "L" -> "l" [] s[i] = "X" -> "x" [] OTHER -> s[i]]

\* path.extname(p): from the last dot of the last segment, if that dot is
\* not its first character.
PathExtname(p) ==
    LET segs == Split(p, "/")
        base == segs[Len(segs)]
        dots == {i \in 2 .. Len(base) : base[i] = "."}
    IN  IF dots = {} THEN <<>>
        ELSE SubSeq(base, CHOOSE i \in dots : \A j \in dots : j <= i, Len(base))

\* s.indexOf(pat), counted from 1; 0 when pat is not in s.
IndexOf(s, pat) ==
    LET hits == {i \in 1 .. Len(s) - Len(pat) + 1 : SubSeq(s, i, i + Len(pat) - 1) = pat}
    IN  IF hits = {} THEN 0 ELSE CHOOSE i \in hits : \A j \in hits : i <= j

\* html.includes('</body>') ? html.replace('</body>', script + '</body>')
\*                          : html + script
Inject(content) ==
    LET i == IndexOf(content, BodyClose)
    IN  IF i # 0
        THEN SubSeq(content, 1, i - 1) \o LIVERELOAD_SCRIPT \o SubSeq(content, i, Len(content))
        ELSE content \o LIVERELOAD_SCRIPT

\* MIME_TYPES[ext] || 'application/octet-stream'
MimeType(ext) ==
    CASE ext = DotHtml -> "text/html; charset=utf-8"
      [] ext = <<".", "c", "s", "s">> -> "text/css"
      [] ext = <<".", "j", "s">> -> "application/javascript"
      [] OTHER -> "application/octet-stream"

\* A path as the file system resolves it: a trailing slash names a
\* directory only.
NoTrailingSlash(p) ==
    IF Len(p) > 1 /\ EndsWith(p, <<"/">>) THEN SubSeq(p, 1, Len(p) - 1) ELSE p

\* fs.existsSync(p) && fs.statSync(p).isDirectory()
isDirectory(fs, p) == IsDirectory(fs, NoTrailingSlash(p))

\* fs.existsSync(p) for a path that may end in a slash
exists(fs, p) ==
    IF p = NoTrailingSlash(p) THEN existsSync(fs, p) ELSE isDirectory(fs, p)

\* fs.readFileSync(p) throws: a directory, or a file that cannot be read.
readFileThrows(fs, p) == ~IsFile(fs, p) \/ ~fs[p].readable

Response(u, status, type, content) ==
    [url |-> u, status |-> status, type |-> type, body |-> content]

\* filePath before the directory test: path.join(outputPath, urlPath).
Joined(u) == PathJoin(<<outputPath, Split(u, "?")[1]>>)

\* filePath when a directory is not replaced by its index.html.
FilePathAsGiven(u) == Joined(u)

\* filePath after the directory test.
FilePath(u) ==
    IF isDirectory(out, Joined(u)) THEN PathJoin(<<Joined(u), IndexHtml>>) ELSE Joined(u)

\* The request handler for a URL other than /_lr: what it responds.
StaticHandler(u) ==
    LET filePath == FilePath(u)
        ext == ToLowerCase(PathExtname(filePath))
    IN  IF ~exists(out, filePath)
        THEN Response(u, 404, "text/plain", <<"N", "o", "t", " ", "f", "o", "u", "n", "d">>)
        ELSE IF readFileThrows(out, filePath)
        THEN Response(u, 500, "text/plain", <<"S", "e", "r", "v", "e", "r", " ", "e", "r", "r", "o", "r">>)
        ELSE Response(u, 200, MimeType(ext),
                      IF ext = DotHtml THEN Inject(out[filePath].content)
                      ELSE out[filePath].content)

\* GET u: the handler runs to its end and the server goes on.
StaticGet(u) ==
    /\ listening
    /\ bpc \notin {"done", "thrown"}
    /\ res' = StaticHandler(u)
    /\ UNCHANGED <<conns, serveVars, processVars, resolveVars, renderVars, fsVars, buildVars, callbackVars, envVars>>
(***************************************************************************)
(* SpecBuild: one call of build() from the command line, over a source     *)
(* tree that does not change during the call and an empty output root.     *)
(***************************************************************************)
Absent == [ver |-> 0, kind |-> "absent", permalink |-> <<>>]

Content(kind, permalink) == [ver |-> 1, kind |-> kind, permalink |-> permalink]

Plain == Content("ok", <<>>)
BadFrontMatter == Content("badfm", <<>>)
BadTemplate == Content("badtpl", <<>>)

\* A permalink below the output file of a/about.html.
PermalinkBelowAbout == Rel(<<SlugA, AboutName, IndexHtml>>)

TreeOf(choice) ==
    [p \in {q \in DOMAIN choice : choice[q] # Absent} |-> choice[p]]

PagePaths == {PageIndexA, PageAboutA, PageSubAboutA, PageIndexX}

TreePaths == PagePaths \cup {LayoutA, AssetStyleA, AssetAboutA, AssetStyleB}

Injective(s) == \A i, j \in DOMAIN s : s[i] = s[j] => i = j

ExplicitLists ==
    {s \in UNION {[1 .. n -> PagePaths] : n \in 0 .. MaxFiles} : Injective(s)}

BuildInit ==
    /\ \E i \in {Plain, BadTemplate},
          a \in {Absent, Plain, BadFrontMatter},
          s \in {Absent, Plain, Content("ok", PermalinkBelowAbout)},
          x \in {Absent, Plain, BadFrontMatter},
          l, sa, ab, sb \in {Absent, Plain} :
            src = TreeOf([p \in TreePaths |->
                    CASE p = PageIndexA -> i
                      [] p = PageAboutA -> a
                      [] p = PageSubAboutA -> s
                      [] p = PageIndexX -> x
                      [] p = LayoutA -> l
                      [] p = AssetStyleA -> sa
                      [] p = AssetAboutA -> ab
                      [] p = AssetStyleB -> sb])
    /\ out = EmptyDir
    /\ BuildUnused
    /\ ServeUnused
    /\ ResolveUnused
    /\ RenderUnused
    /\ HttpUnused
    /\ ProcessUnused

\* build({campaigns, files}) is called.
BuildCall(optFiles) ==
    /\ bpc = "none"
    /\ build(Registry, optFiles)
    /\ UNCHANGED <<processVars, resolveVars, renderVars, httpVars, fsVars, serveVars, callbackVars, envVars>>

BuildNext ==
    \/ \E o \in {Undefined} \cup {Files(s) : s \in ExplicitLists} : BuildCall(o)
    \/ Discover
    \/ \E i \in 1 .. Len(files) : ReadFile(i)
    \/ WriteFile
    \/ CopyAssets

SpecBuild == BuildInit /\ [][BuildNext]_vars

(***************************************************************************)
(* SpecResolve: resolveOutput called once on a path and a front-matter.    *)
(***************************************************************************)
SlugMy == <<"m", "y">>
CustomPath == <<"c", "u", "s", "t", "o", "m", "/", "p", "a", "t", "h">>

ResolveSlugs == {SlugA, SlugMy}

\* File names without the extension; index.html.html is a legal file name.
ResolveNames == {IndexName, AboutName, IndexHtml, <<"i", "n">>}

ResolveFiles ==
    {Rel(<<s, n \o DotHtml>>) : s \in ResolveSlugs, n \in ResolveNames}
        \cup {PageSubAboutA, Rel(<<SlugA, SubDir, IndexHtml>>)}

\* Permalinks without a slash at either end.
PermalinkCores == {CustomPath, <<"p">>, PermalinkBelowAbout, Rel(<<DotDot, <<"e">>>>)}

Slashed(core) ==
    {core, <<"/">> \o core, core \o <<"/">>, <<"/">> \o core \o <<"/">>}

Permalinks ==
    UNION {Slashed(core) : core \in PermalinkCores}
        \cup {<<>>, <<"/">>, <<"/", "/", "p", "/", "/">>}

ResolveInit ==
    /\ relFile \in ResolveFiles
    /\ frontmatter \in {[permalink |-> p] : p \in Permalinks}
    /\ result = NoResult
    /\ RenderUnused
    /\ HttpUnused
    /\ ProcessUnused
    /\ FsUnused
    /\ BuildUnused
    /\ ServeUnused

ResolveCall ==
    /\ result = NoResult
    /\ result' = resolveOutput(relFile, frontmatter, outputPath)
    /\ UNCHANGED <<relFile, frontmatter, processVars, renderVars, httpVars, fsVars, buildVars, serveVars, callbackVars, envVars>>

ResolveNext == ResolveCall

SpecResolve == ResolveInit /\ [][ResolveNext]_vars

(***************************************************************************)
(* SpecDev: the dev command.  runDevServer builds every campaign, calls    *)
(* serve() with its rebuild callback, and the source tree is edited while  *)
(* the server watches it.                                                  *)
(***************************************************************************)

\* path.relative(from, to) of two absolute paths
PathRelative(from, to) ==
    LET a == SelectSeq(Split(from, "/"), LAMBDA x : x # <<>>)
        b == SelectSeq(Split(to, "/"), LAMBDA x : x # <<>>)
        RECURSIVE Common(_)
        Common(i) ==
            IF i <= Len(a) /\ i <= Len(b) /\ a[i] = b[i] THEN Common(i + 1) ELSE i - 1
        c == Common(1)
    IN  JoinWith([i \in 1 .. (Len(a) - c) |-> DotDot] \o SubSeq(b, c + 1, Len(b)), "/")

\* The campaign picked at the prompt.
selectedCampaign == Registry[1]

\* The scope the callback derives from the changed path: the `files` it
\* passes to build().
rebuildScope(changedPath) ==
    LET rel == PathRelative(srcPath, changedPath)
        parts == Split(rel, "/")
        isIncludeOrLayout ==
            \E i \in 1 .. Len(parts) : parts[i] = IncludesDir \/ parts[i] = LayoutsDir
    IN  IF EndsWith(rel, DotHtml) /\ ~isIncludeOrLayout THEN Files(<<rel>>)
        ELSE IF ~EndsWith(rel, DotHtml) THEN Files(<<>>)
        ELSE Undefined

\* onRebuild of the dev command, up to the first await of build().
DevOnRebuild(changedPath) ==
    /\ build(<<selectedCampaign>>, rebuildScope(changedPath))
    /\ inflight' = inflight + 1
    /\ calls' = Append(calls, changedPath)
    /\ snap' = src
    /\ UNCHANGED <<fsVars, failures, escaped>>

DevTree ==
    [p \in {PageIndexA, PageAboutA, LayoutA, IncludeIconA, AssetStyleA} |-> Plain]

\* What is edited or removed while the server runs, and what is added.
DevEditable == {PageIndexA, PageAboutA, LayoutA, IncludeIconA}
DevAddable == {AssetAboutA}

DevInit ==
    /\ src = DevTree
    /\ out = EmptyDir
    /\ bpc = "discover"
    /\ campaigns = Registry
    /\ files = <<>>
    /\ ordered = FALSE
    /\ seen = {}
    /\ cur = NoPage
    /\ built = 0
    /\ errors = 0
    /\ k = 1
    /\ ServeUnused
    /\ ResolveUnused
    /\ RenderUnused
    /\ HttpUnused
    /\ ProcessUnused

\* The initial build has returned: serve() is called.
StartServe ==
    /\ ~listening
    /\ ~exited
    /\ bpc = "done"
    /\ listening' = TRUE
    /\ bpc' = "none"
    /\ UNCHANGED <<campaigns, files, ordered, seen, cur, built, errors, k>>
    /\ UNCHANGED <<rebuilding, sseClients, sent, processVars, resolveVars, renderVars, httpVars, fsVars, callbackVars, envVars>>

Budget == Len(pending) + Len(events) < MaxEvents

\* A file of the source tree is saved with new content.
EditFile(p) ==
    /\ listening
    /\ Budget
    /\ p \in DOMAIN src
    /\ src[p].ver < MaxVer
    /\ src' = [src EXCEPT ![p].ver = @ + 1]
    /\ pending' = Append(pending, Watched(p))
    /\ UNCHANGED <<out, events, failures, escaped, snap>>
    /\ UNCHANGED <<processVars, resolveVars, renderVars, httpVars, buildVars, serveVars, callbackVars>>

\* A file of the source tree is deleted.
UnlinkFile(p) ==
    /\ listening
    /\ Budget
    /\ p \in DOMAIN src
    /\ src' = FsRemove(src, p)
    /\ pending' = Append(pending, Watched(p))
    /\ UNCHANGED <<out, events, failures, escaped, snap>>
    /\ UNCHANGED <<processVars, resolveVars, renderVars, httpVars, buildVars, serveVars, callbackVars>>

\* A file is created in the source tree.
AddFile(p) ==
    /\ listening
    /\ Budget
    /\ p \notin DOMAIN src
    /\ src' = FsPut(src, p, Plain)
    /\ pending' = Append(pending, Watched(p))
    /\ UNCHANGED <<out, events, failures, escaped, snap>>
    /\ UNCHANGED <<processVars, resolveVars, renderVars, httpVars, buildVars, serveVars, callbackVars>>

\* chokidar reports the oldest change it has not reported: handleChange runs.
\* No handler starts while the one that resumes handleChange has yet to run.
Deliver ==
    /\ listening
    /\ pending # <<>>
    /\ bpc \notin {"done", "thrown"}
    /\ pending' = Tail(pending)
    /\ events' = Append(events, Head(pending))
    /\ handleChange(Head(pending), DevOnRebuild(Head(pending)))
    /\ UNCHANGED <<processVars, resolveVars, renderVars, httpVars>>

\* build() has returned inside onRebuild: handleChange resumes.
DevRebuildResolves ==
    /\ listening
    /\ bpc = "done"
    /\ bpc' = "none"
    /\ inflight' = inflight - 1
    /\ handleChangeResumed
    /\ UNCHANGED <<campaigns, files, ordered, seen, cur, built, errors, k>>
    /\ UNCHANGED <<calls, pending, events, snap, processVars, resolveVars, renderVars, httpVars, fsVars>>

\* build() has thrown inside onRebuild (the asset copy failed): the
\* rejection, an Error, reaches the catch block of handleChange.
DevRebuildRejects ==
    /\ listening
    /\ bpc = "thrown"
    /\ bpc' = "none"
    /\ inflight' = inflight - 1
    /\ handleChangeCaught("Error")
    /\ UNCHANGED <<campaigns, files, ordered, seen, cur, built, errors, k>>
    /\ UNCHANGED <<calls, pending, events, snap, processVars, resolveVars, renderVars, httpVars, fsVars>>

\* SIGINT once the handler is registered: server.close(), watcher.close()
\* and process.exit() in one go; whatever the process was doing ends here.
Sigint ==
    /\ listening
    /\ listening' = FALSE
    /\ exited' = TRUE
    /\ UNCHANGED <<rebuilding, sseClients, sent, run, outBefore>>
    /\ UNCHANGED <<resolveVars, renderVars, httpVars, fsVars, buildVars, callbackVars, envVars>>

DevNext ==
    \/ Sigint
    \/ StartServe
    \/ \E p \in DevEditable : EditFile(p)
    \/ \E p \in DevEditable : UnlinkFile(p)
    \/ \E p \in DevAddable : AddFile(p)
    \/ Deliver
    \/ Discover
    \/ \E i \in 1 .. Len(files) : ReadFile(i)
    \/ WriteFile
    \/ CopyAssets
    \/ DevRebuildResolves
    \/ DevRebuildRejects

SpecDev == DevInit /\ [][DevNext]_vars


(***************************************************************************)
(* renderPage() called on its own: SpecRender.                             *)
(***************************************************************************)
\* The longest argument list of a campaign_include of the model.
MaxArgs == 2

TitleKey == <<"t", "i", "t", "l", "e">>
NextKey == <<"n", "e", "x", "t">>

Campaign == Obj(SlugKey :> Str(SlugA) @@ NameKey :> Str(<<"A">>))

PageData == Obj(UrlKey :> Str(<<"/", "a", "/">>))

\* Front-matter: none, a title and a next page, or keys with the names
\* renderPage itself puts in the context.
FrontMatters ==
    {EmptyScope,
     TitleKey :> Str(<<"T">>) @@ NextKey :> Str(<<"u", "p", ".", "h", "t", "m", "l">>),
     TitleKey :> Str(<<"T">>) @@ ContentKey :> Str(<<"C">>) @@ CampaignKey :> Str(<<"K">>)
         @@ PageKey :> Str(<<"P">>)}

\* The arguments a campaign_include may carry: key, raw text, and what a
\* template prints for the value: the text of a literal, or the variable
\* of the calling page that the raw text names.
IncludeArgs ==
    {[key |-> <<"n", "a", "m", "e">>, rawValue |-> <<"\"", "W", " ", "1", "\"">>, text |-> <<"W", " ", "1">>, path |-> <<>>],
     [key |-> <<"f", "l", "a", "g">>, rawValue |-> <<"t", "r", "u", "e">>, text |-> <<"t", "r", "u", "e">>, path |-> <<>>],
     [key |-> <<"t">>, rawValue |-> <<"t", "i", "t", "l", "e">>, text |-> <<>>, path |-> <<TitleKey>>],
     [key |-> <<"n">>, rawValue |-> <<"7">>, text |-> <<"7">>, path |-> <<>>],
     [key |-> <<"i", "n", "c", "l", "u", "d", "e">>, rawValue |-> <<"'", "X", "'">>, text |-> <<"X">>, path |-> <<>>]}

ArgLists ==
    {al \in UNION {[1 .. n -> IncludeArgs] : n \in 0 .. MaxArgs} :
        \A i, j \in 1 .. Len(al) : al[i].key = al[j].key => i = j}

RECURSIVE FormatArgs(_)
\* The text of the arguments: key=value, one space before each.
FormatArgs(al) ==
    IF al = <<>> THEN <<>>
    ELSE <<" ">> \o al[1].key \o <<"=">> \o al[1].rawValue \o FormatArgs(Tail(al))

PartialName == <<"g", ".", "h", "t", "m", "l">>
MissingName == <<"m", ".", "h", "t", "m", "l">>

Quoted(s) == <<"'">> \o s \o <<"'">>

IncludeOf(al) == CampaignInclude(<<" ">> \o Quoted(PartialName) \o FormatArgs(al) \o <<" ">>)

PartialPath == Rel(<<SlugA, IncludesDir, PartialName>>)

\* A partial that writes one key both ways, then two variables of the page.
Probe(key) ==
    <<Output(<<key>>), Text(<<"|">>), Output(<<IncludeKey, key>>), Text(<<"|">>),
      Output(<<CampaignKey, SlugKey>>), Text(<<"|">>), Output(<<TitleKey>>)>>

NoPartials == [p \in {} |-> [kind |-> "ok", tpl |-> <<>>]]

\* A partial whose rendering throws: two includes of a missing file, then
\* an assign.
Thrower ==
    <<CampaignInclude(Quoted(MissingName)), CampaignInclude(Quoted(MissingName)),
      Assign(<<"x">>, <<"1">>)>>

PartialDirs ==
    {PartialPath :> [kind |-> "ok", tpl |-> Probe(a.key)] : a \in IncludeArgs}
        \cup {PartialPath :> [kind |-> "syntax", tpl |-> <<>>],
              PartialPath :> [kind |-> "ok", tpl |-> Thrower],
              NoPartials}

\* The file names the two filters are applied to.
FilterNames ==
    {<<"s", "t", "y", "l", "e", ".", "c", "s", "s">>, <<"c", "s", "s", "/", "a", ".", "c", "s", "s">>, <<"c", "h", "e", "c", "k", "o", "u", "t", ".", "h", "t", "m", "l">>, <<"i", "n", "d", "e", "x", ".", "h", "t", "m", "l">>, <<"i", "n", "d", "e", "x">>,
     <<"#", "t", "o", "p">>, <<"/", "b", "/", "x", ".", "h", "t", "m", "l">>, <<"h", "t", "t", "p", ":", "/", "/", "h", "/", "x", ".", "p", "n", "g">>, <<"h", "t", "t", "p", "s", ":", "/", "/", "h", "/", "x", ".", "h", "t", "m", "l">>,
     <<"H", "T", "T", "P", "S", ":", "/", "/", "h", "/", "x", ".", "p", "n", "g">>, <<"m", "a", "i", "l", "t", "o", ":", "a", "@", "h">>, <<>>}

Filters == {"campaign_asset", "campaign_link"}

FilterBodies ==
    {<<Filtered(f, g)>> : f \in FilterNames, g \in Filters}
        \cup {<<FilteredVar(<<NextKey>>, g)>> : g \in Filters}

PlainBodies ==
    {<<>>,
     <<Text(<<"<", "p", ">">>), Output(<<CampaignKey, NameKey>>), Text(<<"<", "/", "p", ">">>)>>,
     <<Text(<<"<", "h", "1", ">">>), Output(<<TitleKey>>), Output(<<ContentKey>>)>>,
     <<Assign(<<"x">>, <<"1">>), Output(<<<<"x">>>>)>>}

Layouts ==
    {Null,
     Source(<<>>),
     Source(<<Text(<<"<", "h", "t", "m", "l", ">">>), Output(<<ContentKey>>), Text(<<"<", "/", "h", "t", "m", "l", ">">>)>>),
     Source(<<Text(<<"<", "h", "t", "m", "l", ">">>), Output(<<TitleKey>>)>>)}

\* What a template prints for the key of an argument, read both ways.
ReadBack(key) == <<Output(<<key>>), Output(<<IncludeKey, key>>)>>

\* Bodies that read the argument of an include after the directive, and a
\* layout that does.
ReadBackBodies ==
    {<<IncludeOf(<<a>>), Text(<<"]">>)>> \o ReadBack(a.key) : a \in IncludeArgs}

ReadBackLayout ==
    Source(<<Output(<<ContentKey>>), Text(<<"|">>)>> \o ReadBack(<<"n", "a", "m", "e">>) \o ReadBack(<<"t">>))

\* Bodies that include a file which is missing, or present or not by the
\* choice of the directory.
IncludeBodies ==
    {<<Text(<<"[">>), IncludeOf(al), Text(<<"]">>), Output(<<TitleKey>>)>> : al \in ArgLists}
        \cup {<<CampaignInclude(Quoted(MissingName)), Text(<<"]">>), Output(<<TitleKey>>)>>,
              <<IncludeOf(<<>>), Assign(<<"x">>, <<"1">>), Output(<<<<"x">>>>)>>,
              <<CampaignInclude(<<"g", ".", "h", "t", "m", "l", " ", "n", "a", "m", "e", "=", "W">>), Text(<<"]">>)>>}

RenderInit ==
    /\ \/ /\ body \in FilterBodies
          /\ layoutSrc = Null
          /\ partials = NoPartials
       \/ /\ body \in PlainBodies
          /\ layoutSrc \in Layouts
          /\ partials = NoPartials
       \/ /\ body \in IncludeBodies
          /\ layoutSrc \in {Null, Source(<<Output(<<ContentKey>>)>>)}
          /\ partials \in PartialDirs
       \/ /\ body \in ReadBackBodies
          /\ layoutSrc \in {Null, ReadBackLayout}
          /\ partials \in PartialDirs
    /\ data \in FrontMatters
    /\ campaignData \in {Campaign, Nil}
    /\ html = NoHtml
    /\ ResolveUnused
    /\ HttpUnused
    /\ ProcessUnused
    /\ FsUnused
    /\ BuildUnused
    /\ ServeUnused

RenderCall ==
    /\ html = NoHtml
    /\ html' = renderPage(body, data, campaignData, PageData, layoutSrc)
    /\ UNCHANGED <<body, data, campaignData, layoutSrc, partials>>
    /\ UNCHANGED <<processVars, resolveVars, httpVars, fsVars, buildVars, serveVars, callbackVars, envVars>>

RenderNext == RenderCall

SpecRender == RenderInit /\ [][RenderNext]_vars

(***************************************************************************)
(* serve() with its HTTP side: SpecHttp.                                   *)
(***************************************************************************)
File(content) == [content |-> content, readable |-> TRUE]

Unreadable == [content |-> <<>>, readable |-> FALSE]

Out(rel) == PathJoin(<<outputPath, rel>>)

\* The output root the server reads, and a source file beside it.
Site ==
    Out(<<"a", "/", "i", "n", "d", "e", "x", ".", "h", "t", "m", "l">>) :> File(<<"<", "b", "o", "d", "y", ">", "x", "<", "/", "b", "o", "d", "y", ">">>)
        @@ Out(<<"a", "/", "a", "b", "o", "u", "t", "/", "i", "n", "d", "e", "x", ".", "h", "t", "m", "l">>) :> File(<<"h", "i">>)
        @@ Out(<<"a", "/", "u", "p", "/", "i", "n", "d", "e", "x", ".", "h", "t", "m", "l">>) :> File(<<"<", "B", "O", "D", "Y", ">", "x", "<", "/", "B", "O", "D", "Y", ">">>)
        @@ Out(<<"a", "/", "t", "w", "o", "/", "i", "n", "d", "e", "x", ".", "h", "t", "m", "l">>) :> File(<<"<", "!", "-", "-", "<", "/", "b", "o", "d", "y", ">", "-", "-", ">", "<", "b", "o", "d", "y", ">", "x", "<", "/", "b", "o", "d", "y", ">">>)
        @@ Out(<<"a", "/", "e", "m", "p", "t", "y", "/", "i", "n", "d", "e", "x", ".", "h", "t", "m", "l">>) :> File(<<>>)
        @@ Out(<<"a", "/", "X", ".", "H", "T", "M", "L">>) :> File(<<"x", "<", "/", "b", "o", "d", "y", ">">>)
        @@ Out(<<"a", "/", "s", "t", "y", "l", "e", ".", "c", "s", "s">>) :> File(<<"b", "{", "}", "<", "/", "b", "o", "d", "y", ">">>)
        @@ Out(<<"a", "/", "s", "e", "c", "r", "e", "t", ".", "h", "t", "m", "l">>) :> Unreadable
        @@ Out(<<"b", "/", "i", "n", "d", "e", "x", ".", "h", "t", "m", "l", "/", "i", "n", "d", "e", "x", ".", "h", "t", "m", "l">>) :> File(<<"y">>)
        @@ Watched(LayoutA) :> File(<<"{", "{", " ", "c", "o", "n", "t", "e", "n", "t", " ", "}", "}">>)

Urls ==
    {<<"/">>, <<"/", "a", "/">>, <<"/", "a">>, <<"/", "a", "/", "?", "q", "=", "1">>, <<"/", "a", "/", "i", "n", "d", "e", "x", ".", "h", "t", "m", "l">>, <<"/", "a", "/", "i", "n", "d", "e", "x", ".", "h", "t", "m", "l", "/">>,
     <<"/", "a", "/", "a", "b", "o", "u", "t", "/">>, <<"/", "a", "/", "u", "p", "/">>, <<"/", "a", "/", "t", "w", "o", "/">>, <<"/", "a", "/", "e", "m", "p", "t", "y", "/">>, <<"/", "a", "/", "X", ".", "H", "T", "M", "L">>,
     <<"/", "a", "/", "s", "t", "y", "l", "e", ".", "c", "s", "s">>, <<"/", "a", "/", "s", "e", "c", "r", "e", "t", ".", "h", "t", "m", "l">>, <<"/", "b", "/">>, <<"/", "m", "i", "s", "s", "i", "n", "g", ".", "h", "t", "m", "l">>,
     <<"/", ".", ".", "/", "s", "r", "c", "/", "a", "/", "_", "l", "a", "y", "o", "u", "t", "s", "/", "b", "a", "s", "e", ".", "h", "t", "m", "l">>, <<"/", "a", "/", ".", ".", "/", ".", ".", "/", "s", "r", "c", "/", "a", "/", "_", "l", "a", "y", "o", "u", "t", "s", "/", "b", "a", "s", "e", ".", "h", "t", "m", "l">>, <<"/", "a", "/", ".", ".", "/", "a", "/", "s", "t", "y", "l", "e", ".", "c", "s", "s">>}

\* The requests made while the watcher and the reload channel are at work.
HttpUrls == {<<"/", "a", "/">>, <<"/", "m", "i", "s", "s", "i", "n", "g", ".", "h", "t", "m", "l">>}

HttpInit ==
    /\ ServeInit
    /\ conns = {}
    /\ res = NoResponse
    /\ src = EmptyDir
    /\ out = Site
    /\ ResolveUnused
    /\ RenderUnused
    /\ BuildUnused
    /\ ProcessUnused

HttpNext ==
    \/ Next
    \/ \E u \in HttpUrls : StaticGet(u)

SpecHttp == HttpInit /\ [][HttpNext]_vars

(***************************************************************************)
(* The static handler on its own, over several output roots: SpecStatic.   *)
(***************************************************************************)
\* The files an output root may lack.
Optional == {Out(<<"a", "/", "i", "n", "d", "e", "x", ".", "h", "t", "m", "l">>), Out(<<"a", "/", "s", "e", "c", "r", "e", "t", ".", "h", "t", "m", "l">>), Out(<<"b", "/", "i", "n", "d", "e", "x", ".", "h", "t", "m", "l", "/", "i", "n", "d", "e", "x", ".", "h", "t", "m", "l">>)}

Sites ==
    {[p \in DOMAIN Site \ gone |-> Site[p]] : gone \in SUBSET Optional}

StaticInit ==
    /\ ServeInit
    /\ conns = {}
    /\ res = NoResponse
    /\ src = EmptyDir
    /\ out \in Sites
    /\ ResolveUnused
    /\ RenderUnused
    /\ BuildUnused
    /\ ProcessUnused

StaticNext == \E u \in Urls : StaticGet(u)

SpecStatic == StaticInit /\ [][StaticNext]_vars

(***************************************************************************)
(* SpecTwice: build() is called, returns, and is called again with the     *)
(* same options over the same source tree and the output root the first    *)
(* call left.                                                              *)
(***************************************************************************)
TwicePages == {PageIndexA, PageAboutA, PageSubAboutA}

TwicePaths == TwicePages \cup {AssetIndexA, AssetStyleA, AssetAboutA}

TwiceLists ==
    {s \in UNION {[1 .. n -> TwicePages] : n \in 0 .. MaxFiles} : Injective(s)}

\* A permalink into the output directory of campaign b, and one that
\* leaves the output root.
PermalinkIntoB == <<"/">> \o SlugB \o <<"/">>
PermalinkOutside == DotDot \o <<"/">> \o SlugX

TwiceInit ==
    /\ \E choice \in [TwicePaths -> {Absent, Plain}],
          permalink \in {<<>>, PermalinkIntoB, PermalinkOutside} :
            src = TreeOf([p \in TwicePaths |->
                    IF p = PageSubAboutA /\ choice[p] # Absent
                    THEN Content("ok", permalink) ELSE choice[p]])
    /\ out = EmptyDir
    /\ BuildUnused
    /\ ServeUnused
    /\ ResolveUnused
    /\ RenderUnused
    /\ HttpUnused
    /\ ProcessUnused

\* The first call.
TwiceFirst(optFiles) ==
    /\ bpc = "none"
    /\ run = 0
    /\ build(Registry, optFiles)
    /\ run' = 1
    /\ UNCHANGED <<outBefore, exited>>
    /\ UNCHANGED <<resolveVars, renderVars, httpVars, fsVars, serveVars, callbackVars, envVars>>

\* The first call has returned: the second call, with the options of the
\* first.
TwiceSecond ==
    /\ bpc = "done"
    /\ run = 1
    /\ build(campaigns, IF ordered THEN Files(files) ELSE Undefined)
    /\ run' = 2
    /\ outBefore' = out
    /\ UNCHANGED exited
    /\ UNCHANGED <<resolveVars, renderVars, httpVars, fsVars, serveVars, callbackVars, envVars>>

TwiceNext ==
    \/ \E o \in {Undefined} \cup {Files(s) : s \in TwiceLists} : TwiceFirst(o)
    \/ TwiceSecond
    \/ Discover
    \/ \E i \in 1 .. Len(files) : ReadFile(i)
    \/ WriteFile
    \/ CopyAssets

SpecTwice == TwiceInit /\ [][TwiceNext]_vars
(***************************************************************************)
(* Claims about serve(), checked under Spec.                               *)
(***************************************************************************)

\* C1: at most one invocation of onRebuild is in flight at any time; a
\* watcher event that arrives while a rebuild is in flight invokes nothing,
\* and no invocation is made later on its behalf: every invocation is made
\* by the event that arrives in the same step, with the flag clear.
C1_AtMostOneRebuildInFlight ==
    /\ [](inflight <= 1)
    /\ [][(events' # events /\ rebuilding)
            => (calls' = calls /\ inflight' = inflight /\ rebuilding')]_vars
    /\ [][calls' # calls
            => (/\ ~rebuilding
                /\ events' # events
                /\ calls' = Append(calls, events'[Len(events')]))]_vars

\* An event was dropped while the one rebuild was in flight.
C1_Witness ==
    /\ rebuilding
    /\ inflight = 1
    /\ Len(events) > Len(calls)

\* C2: an event that arrives while Idle makes the server Rebuilding and
\* invokes onRebuild with the changed path, without writing to any client;
\* reload messages are written only in the step in which an invocation of
\* onRebuild has completed, one to every client then in the Set and none to
\* the others, and that step ends in Idle.
C2_ReloadOnlyAfterRebuild ==
    /\ [][(events' # events /\ ~rebuilding)
            => (/\ calls' = Append(calls, events'[Len(events')])
                /\ (rebuilding' \/ failures' = failures + 1)
                /\ \A c \in Clients : sent'[c] = sent[c])]_vars
    /\ [][(\E c \in Clients : sent'[c] > sent[c])
            => (/\ rebuilding
                /\ inflight' = inflight - 1
                /\ failures' = failures)]_vars
    /\ [][(inflight' < inflight /\ failures' = failures)
            => (/\ \A c \in sseClients : sent'[c] = sent[c] + 1
                /\ \A c \in Clients \ sseClients : sent'[c] = sent[c]
                /\ sseClients' = sseClients
                /\ ~rebuilding')]_vars

\* A rebuild has completed and its reload reached both a client and Idle.
C2_Witness ==
    /\ ~rebuilding
    /\ inflight = 0
    /\ failures = 0
    /\ Len(calls) > 0
    /\ \E c \in sseClients : sent[c] > 0

\* C3: a throw or rejection of onRebuild is caught inside handleChange: the
\* step that handles it ends in Idle and nothing leaves the handler.
C3_RebuildFailureIsContained ==
    [][failures' > failures => (~rebuilding' /\ ~escaped')]_vars

\* C26: when the promise of onRebuild settles in the end, every entry into
\* Rebuilding is followed by a return to Idle; only the settling of that
\* promise leaves Rebuilding, so a callback that never settles keeps the
\* server Rebuilding, and every event that arrives in Rebuilding is
\* dropped.
C26_RebuildingEndsWhenCallbackSettles ==
    /\ rebuilding ~> ~rebuilding
    /\ [][(rebuilding /\ ~rebuilding') => inflight' = inflight - 1]_vars
    /\ [](rebuilding => inflight = 1)
    /\ [][(rebuilding /\ events' # events)
            => (rebuilding' /\ calls' = calls /\ inflight' = inflight)]_vars

\* A rebuild was rejected and the server is Idle again, after an event was
\* dropped in Rebuilding.
C26_Witness ==
    /\ ~rebuilding
    /\ inflight = 0
    /\ failures >= 1
    /\ Len(events) > Len(calls)
(***************************************************************************)
(* Claims about build(), checked under SpecBuild.                          *)
(***************************************************************************)
SlugOf(f) == Split(f, "/")[1]

\* The iteration for position i of files was completed by this step.
Finished(i) == i \notin seen /\ i \in seen'

\* The iteration in progress fails: the read or the parse throws, or
\* renderPage, mkdirSync or writeFileSync does.
Throws(i) ==
    \/ bpc = "loop" /\ ReadThrows(files[i])
    \/ /\ bpc = "render"
       /\ \/ cur.kind = "badtpl"
          \/ mkdirThrows(out, PathDirname(cur.to.outputFile))
          \/ writeFileThrows(out, cur.to.outputFile)

\* C5: a failure while reading, parsing, rendering or writing one file adds
\* one to errors and the loop goes on: build() never throws from the page
\* loop, the loop ends only when every file of the list has been taken, and
\* a file that succeeds is written to its output path.
C5_PerFileFailureIsCounted ==
    /\ [][bpc' = "thrown" => bpc = "assets"]_vars
    /\ [](bpc \in {"assets", "done", "thrown"} => seen = 1 .. Len(files))
    /\ [][\A i \in 1 .. Len(files) :
            (Finished(i) /\ Throws(i))
                => (/\ errors' = errors + 1
                    /\ built' = built
                    /\ out' = out
                    /\ bpc' \in {"loop", "assets", "done"})]_vars
    /\ [][(bpc = "render" /\ ~Throws(cur.pos))
            => (/\ built' = built + 1
                /\ errors' = errors
                /\ cur.to.outputFile \in DOMAIN out'
                /\ out'[cur.to.outputFile].from = cur.relFile
                /\ out'[cur.to.outputFile].as = "page")]_vars

\* Every file of the list could be read, parsed and rendered, one of them
\* failed on its write, and another was still built.
C5_Witness ==
    /\ bpc = "done"
    /\ errors >= 1
    /\ built >= 1
    /\ \A i \in 1 .. Len(files) :
           /\ files[i] \in DOMAIN src
           /\ src[files[i]].kind = "ok"

\* The pages the loop resolves an output for: readable, parsed, and of a
\* campaign of the registry.
Processed(f) ==
    /\ \E i \in 1 .. Len(files) : files[i] = f
    /\ IsFile(src, f)
    /\ src[f].kind # "badfm"
    /\ HasCampaign(SlugOf(f))

Resolved(f) == resolveOutput(f, [permalink |-> src[f].permalink], outputPath)

\* C6: two distinct pages of one build, neither with a permalink, resolve to
\* distinct output files and distinct URLs.
C6_OutputPathsAreUnique ==
    bpc \in {"loop", "render", "assets", "done"} =>
        \A f, g \in DOMAIN src :
            (/\ f # g
             /\ Processed(f) /\ Processed(g)
             /\ src[f].permalink = <<>> /\ src[g].permalink = <<>>)
                => (/\ Resolved(f).outputFile # Resolved(g).outputFile
                    /\ Resolved(f).url # Resolved(g).url)

\* C9: the iteration for a file of the source tree whose first path segment
\* is no slug of the registry writes nothing, counts neither in built nor
\* in errors, and the loop goes on.
C9_UnknownSlugIsSkipped ==
    [][\A i \in 1 .. Len(files) :
        (Finished(i) /\ IsFile(src, files[i]) /\ ~HasCampaign(SlugOf(files[i])))
            => (/\ built' = built
                /\ errors' = errors
                /\ out' = out
                /\ bpc' \in {"loop", "assets", "done"})]_vars

\* C10: when build() returns, every file below <slug>/assets of every
\* campaign of the registry is at its place below <output-root>/<slug>,
\* whatever pages the call rendered.
C10_AssetsAreCopied ==
    bpc = "done" =>
        \A c \in 1 .. Len(campaigns) :
            \A p \in DOMAIN src :
                IsProperAncestor(Rel(<<campaigns[c].slug, AssetsDir>>), p)
                    => LET d == PathJoin(<<outputPath, campaigns[c].slug,
                                           SubSeq(p, Len(campaigns[c].slug) + Len(AssetsDir) + 3, Len(p))>>)
                       IN  /\ d \in DOMAIN out
                           /\ out[d] = [from |-> p, ver |-> src[p].ver,
                                        layout |-> 0, as |-> "asset"]

\* build({files: []}) has returned and the assets of a campaign are in place.
C10_Witness ==
    /\ bpc = "done"
    /\ ordered
    /\ files = <<>>
    /\ built = 0
    /\ PathJoin(<<outputPath, SlugB, StyleCss>>) \in DOMAIN out
    /\ PathJoin(<<outputPath, SlugA, StyleCss>>) \in DOMAIN out

(***************************************************************************)
(* Claims about resolveOutput, checked under SpecResolve.                  *)
(***************************************************************************)
Slash == <<"/">>

\* C7: for a path <slug>/<name>.html and no permalink, the URL is /<slug>/
\* and the file <output-root>/<slug>/index.html when <name> is index, and
\* the URL is /<slug>/<name>/ and the file
\* <output-root>/<slug>/<name>/index.html otherwise.
C7_NameBasedOutput ==
    \A s \in ResolveSlugs, n \in ResolveNames :
        (/\ result # NoResult
         /\ frontmatter.permalink = <<>>
         /\ relFile = s \o Slash \o n \o DotHtml)
            => IF n = IndexName
               THEN /\ result.url = Slash \o s \o Slash
                    /\ result.outputFile = outputPath \o Slash \o s \o Slash \o IndexHtml
               ELSE /\ result.url = Slash \o s \o Slash \o n \o Slash
                    /\ result.outputFile =
                         outputPath \o Slash \o s \o Slash \o n \o Slash \o IndexHtml

\* resolveOutput has returned for an index page without permalink.
C7_Witness ==
    /\ result # NoResult
    /\ frontmatter.permalink = <<>>
    /\ relFile = SlugMy \o Slash \o IndexHtml
    /\ result.url = Slash \o SlugMy \o Slash

\* The permalinks made of segments that are names.
PlainCores == {CustomPath, <<"p">>, PermalinkBelowAbout}

\* C8: with a permalink, written with or without a leading and a trailing
\* slash, the URL is /<permalink>/ and the file
\* <output-root>/<permalink>/index.html, whatever the file is called.
C8_PermalinkOverridesName ==
    \A core \in PlainCores :
        (result # NoResult /\ frontmatter.permalink \in Slashed(core))
            => /\ result.url = Slash \o core \o Slash
               /\ result.outputFile = outputPath \o Slash \o core \o Slash \o IndexHtml

\* resolveOutput has returned for /custom/path/ on a page called about.
C8_Witness ==
    /\ result # NoResult
    /\ frontmatter.permalink = Slash \o CustomPath \o Slash
    /\ relFile = SlugMy \o Slash \o AboutName \o DotHtml
    /\ result.url = Slash \o CustomPath \o Slash

(***************************************************************************)
(* Claims about the dev command, checked under SpecDev.                    *)
(***************************************************************************)

\* The output root holds, for every page of the selected campaign that the
\* tree has, a rendering at least as new as the tree's page and layout, and
\* nothing for a page the tree no longer has.
Reflects(o, tree) ==
    \A p \in {PageIndexA, PageAboutA} :
        LET d == resolveOutput(p, [permalink |-> <<>>], outputPath).outputFile
        IN  IF IsFile(tree, p)
            THEN /\ d \in DOMAIN o
                 /\ o[d].from = p
                 /\ o[d].ver >= tree[p].ver
                 /\ IsFile(tree, LayoutA) => o[d].layout >= tree[LayoutA].ver
            ELSE d \notin DOMAIN o

\* The same, for the pages the tree still has.
ReflectsPresent(o, tree) ==
    \A p \in {PageIndexA, PageAboutA} :
        LET d == resolveOutput(p, [permalink |-> <<>>], outputPath).outputFile
        IN  IsFile(tree, p) =>
                 /\ d \in DOMAIN o
                 /\ o[d].from = p
                 /\ o[d].ver >= tree[p].ver

\* C4: the server returns to Idle from a rebuild only with an output that
\* reflects the source tree as it was when that rebuild began, changes whose
\* events were dropped and removed pages included.
C4_IdleOnlyWhenOutputIsCurrent ==
    [][(listening /\ rebuilding /\ ~rebuilding') => Reflects(out', snap)]_vars


(***************************************************************************)
(* The counts build() returns, checked under SpecBuild.                    *)
(***************************************************************************)
\* The positions of files whose iteration ends in `continue`: the file reads
\* and parses, and its first segment is no slug of the registry.
SkippedPositions ==
    {i \in 1 .. Len(files) :
        ~ReadThrows(files[i]) /\ ~HasCampaign(SlugOf(files[i]))}

\* The page of the iteration in progress is written by this step.
Written ==
    /\ bpc = "render"
    /\ cur.to.outputFile \in DOMAIN out'
    /\ out'[cur.to.outputFile].from = cur.relFile
    /\ out'[cur.to.outputFile].ver = cur.ver
    /\ out'[cur.to.outputFile].as = "page"

\* C11: built counts the files whose output was written and errors the
\* files that raised an exception: the counts change only in the step that
\* ends the iteration of one file, which is exactly one of built (written,
\* built + 1), failed (threw, errors + 1) and skipped (unknown slug, neither);
\* so built + errors is at most the number of files taken, and when build()
\* returns it is the length of the list less the skipped files.
C11_CountsPartitionTheFiles ==
    /\ [][(built' # built \/ errors' # errors)
            => \E i \in 1 .. Len(files) : Finished(i)]_buildVars
    /\ [][\A i \in 1 .. Len(files) : Finished(i) =>
            \/ /\ Written /\ ~Throws(i)
               /\ built' = built + 1 /\ errors' = errors
            \/ /\ Throws(i) /\ out' = out
               /\ built' = built /\ errors' = errors + 1
            \/ /\ i \in SkippedPositions /\ ~Throws(i) /\ out' = out
               /\ bpc = "loop"
               /\ built' = built /\ errors' = errors]_vars
    /\ [](bpc \in {"loop", "render", "assets", "done", "thrown"}
            => built + errors + Cardinality(SkippedPositions \cap seen)
                   = Cardinality(seen))
    /\ [](bpc = "done"
            => built + errors = Len(files) - Cardinality(SkippedPositions))

\* build() has returned with a page built, a page failed and a page skipped.
C11_Witness ==
    /\ bpc = "done"
    /\ built >= 1
    /\ errors >= 1
    /\ built + errors < Len(files)

(***************************************************************************)
(* Claims about renderPage(), the filters and the include tag, checked     *)
(* under SpecRender.                                                       *)
(***************************************************************************)
Rendered == html.status # "none"

Pass1 == parseAndRender(body, PageContext(data, campaignData, PageData))

Pass2 ==
    parseAndRender(layoutSrc.tpl,
                   (ContentKey :> Str(Pass1.s)) @@ PageContext(data, campaignData, PageData))

\* C12: renderPage renders the body; with a layout source that is not null
\* it returns the layout rendered against the same context plus content,
\* and with null it returns the output of the body unchanged.
C12_LayoutWhenNonNull ==
    (Rendered /\ Pass1.status = "resolved")
        => html = IF layoutSrc.isNull THEN Pass1 ELSE Pass2

\* What the probe partial for argument a of the list al must write, and the
\* page around it.
PrintedValue(a) ==
    IF a.path = <<>> THEN a.text
    ELSE IF a.path[1] \in DOMAIN data THEN stringify(data[a.path[1]]) ELSE <<>>

PrintedTitle == IF TitleKey \in DOMAIN data THEN stringify(data[TitleKey]) ELSE <<>>

ProbeOutput(a) ==
    <<"[">> \o PrintedValue(a) \o <<"|">> \o PrintedValue(a) \o <<"|">> \o SlugA
        \o <<"|">> \o PrintedTitle \o <<"]">> \o PrintedTitle

\* The page includes the probe for argument i of the list al.
Probes(al, i) ==
    /\ Rendered
    /\ campaignData = Campaign
    /\ layoutSrc = Null
    /\ body = <<Text(<<"[">>), IncludeOf(al), Text(<<"]">>), Output(<<TitleKey>>)>>
    /\ PartialPath \in DOMAIN partials
    /\ partials[PartialPath].kind = "ok"
    /\ partials[PartialPath].tpl = Probe(al[i].key)

\* C13: in the included template every key=value argument reads the same
\* as key and as include.key, and the variables of the page that were not
\* passed (campaign, title) still read as on the page.
C13_ArgsReadBothWays ==
    \A al \in ArgLists : \A i \in 1 .. Len(al) :
        Probes(al, i) => html = [status |-> "resolved", s |-> ProbeOutput(al[i])]

\* C13, as the code has it: the same for every argument whose key is not
\* include; the name include always reads as the container of the arguments.
C13_ArgsReadBothWaysButInclude ==
    \A al \in ArgLists : \A i \in 1 .. Len(al) :
        (Probes(al, i) /\ al[i].key # IncludeKey)
            => html = [status |-> "resolved", s |-> ProbeOutput(al[i])]

\* A partial has printed the second of two arguments, a variable of the page.
C13_Witness ==
    \E al \in ArgLists :
        /\ Len(al) = 2
        /\ al[2].path # <<>>
        /\ al[1].key # IncludeKey
        /\ Probes(al, 2)
        /\ data # EmptyScope
        /\ html.status = "resolved"

IsInclude(tok) == tok.k = "campaign_include"

IsNotInclude(tok) == ~IsInclude(tok)

\* Every campaign_include of the body names a file that is missing or does
\* not parse.
AllIncludesFail ==
    /\ Truthy(campaignData)
    /\ \E i \in 1 .. Len(body) : IsInclude(body[i])
    /\ \A i \in 1 .. Len(body) :
           IsInclude(body[i])
               => /\ MatchFilename(body[i].s) # <<>>
                  /\ parseFileThrows(IncludePath(campaignData, MatchFilename(body[i].s)))

\* C14: a campaign_include whose file is missing or does not parse writes
\* nothing, and renderPage settles as it does for the page without the
\* directive: the rest of the output is returned and nothing is thrown.
C14_FailedIncludeIsEmpty ==
    (Rendered /\ AllIncludesFail)
        => html = renderPage(SelectSeq(body, IsNotInclude), data, campaignData,
                             PageData, layoutSrc)

Letters ==
    {"a", "b", "c", "d", "e", "f", "g", "h", "i", "j", "k", "l", "m", "n", "o",
     "p", "q", "r", "s", "t", "u", "v", "w", "x", "y", "z", "A", "B", "C", "D",
     "E", "F", "G", "H", "I", "J", "K", "L", "M", "N", "O", "P", "Q", "R", "S",
     "T", "U", "V", "W", "X", "Y", "Z"}

\* An absolute URL: a scheme, then a colon.
IsAbsoluteUrl(s) ==
    LET e == RunEnd(s, 1, Letters \cup Digits \cup {"+", "-", "."})
    IN  /\ s # <<>>
        /\ s[1] \in Letters
        /\ e <= Len(s)
        /\ s[e] = ":"

\* The page is one filter applied to the file name f.
Applies(filter, f) ==
    /\ Rendered
    /\ layoutSrc = Null
    /\ body = <<Filtered(f, filter)>>

\* C15: campaign_link returns a name that starts with # or /, or is an
\* absolute URL, unchanged; any other name, with a campaign in scope, gives
\* /<slug>/ when the name less a trailing .html is index, and
\* /<slug>/<name>/ otherwise.
C15_CampaignLink ==
    \A f \in FilterNames \ {<<>>} :
        Applies("campaign_link", f) =>
            IF StartsWith(f, <<"#">>) \/ StartsWith(f, <<"/">>) \/ IsAbsoluteUrl(f)
            THEN html.s = f
            ELSE Truthy(campaignData) =>
                     /\ html.s = IF StripHtmlExt(f) = IndexName
                                 THEN <<"/">> \o SlugA \o <<"/">>
                                 ELSE <<"/">> \o SlugA \o <<"/">> \o StripHtmlExt(f) \o <<"/">>
                     /\ StartsWith(html.s, <<"/">> \o SlugA \o <<"/">>)
                     /\ EndsWith(html.s, <<"/">>)

\* C16: campaign_asset returns an absolute URL unchanged, /<slug>/<name>
\* for any other name with a campaign in scope, and the name unchanged
\* without one.
C16_CampaignAsset ==
    \A f \in FilterNames \ {<<>>} :
        Applies("campaign_asset", f) =>
            /\ html.status = "resolved"
            /\ html.s = IF IsAbsoluteUrl(f) THEN f
                        ELSE IF Truthy(campaignData) THEN <<"/">> \o SlugA \o <<"/">> \o f
                        ELSE f

(***************************************************************************)
(* Claims about the HTTP side of serve().                                  *)
(***************************************************************************)
\* C17: the client Set holds exactly the connections to /_lr that are
\* open: it changes only by the connection that is opened joining and the
\* connection that is closed leaving, and a static GET, the start or end
\* of a rebuild and a broadcast leave it as it is.
C17_ClientSetIsOpenConnections ==
    /\ [](sseClients = conns)
    /\ [][sseClients' # sseClients =>
            \E c \in Clients :
                \/ /\ c \notin conns
                   /\ conns' = conns \cup {c}
                   /\ sseClients' = sseClients \cup {c}
                \/ /\ c \in conns
                   /\ conns' = conns \ {c}
                   /\ sseClients' = sseClients \ {c}]_vars
    /\ [][(\/ res' # res
           \/ rebuilding' # rebuilding
           \/ events' # events
           \/ failures' # failures
           \/ \E c \in Clients : sent'[c] > sent[c])
            => sseClients' = sseClients]_vars

\* A connection that received a reload has closed, another is open, and a
\* page was served.
C17_Witness ==
    /\ 2 \notin sseClients
    /\ sent[2] >= 1
    /\ 1 \in sseClients
    /\ res.status = 200

\* The file a response was made from, and what the file holds.
Served == FilePath(res.url)

IsMarkup(p) == ToLowerCase(PathExtname(p)) = DotHtml

\* The positions of s at which a closing body tag starts, in any case of
\* its letters.
BodyCloses(s) ==
    {i \in 1 .. Len(s) - Len(BodyClose) + 1 :
        SubSeq(s, i, i + Len(BodyClose) - 1) \in {BodyClose, <<"<", "/", "B", "O", "D", "Y", ">">>}}

\* The closing body tag of a page is the last one in its text.
LastBodyClose(s) == CHOOSE i \in BodyCloses(s) : \A j \in BodyCloses(s) : j <= i

\* C18: a 200 response for a .html file is the content of the file with
\* the live-reload script added once, immediately before the closing body
\* tag when there is one and at the end otherwise; any other file is served
\* as it is.
C18_SnippetBeforeClosingBody ==
    res.status = 200 =>
        LET content == out[Served].content
        IN  IF ~IsMarkup(Served) THEN res.body = content
            ELSE IF BodyCloses(content) = {} THEN res.body = content \o LIVERELOAD_SCRIPT
            ELSE res.body = SubSeq(content, 1, LastBodyClose(content) - 1)
                                \o LIVERELOAD_SCRIPT
                                \o SubSeq(content, LastBodyClose(content), Len(content))

\* The response body without the script.
WithoutScript(s) == SelectSeq(s, LAMBDA ch : <<ch>> # LIVERELOAD_SCRIPT)

\* C19: a GET for a path other than /_lr ends with exactly one of 404, 500
\* and 200: 404 when the file, after a directory was replaced by its
\* index.html, does not exist, 500 when it cannot be read, and otherwise
\* 200 with the content of the file; the server goes on serving.
C19_StaticGetStatus ==
    /\ [](res # NoResponse =>
            LET joined == PathJoin(<<outputPath, Split(res.url, "?")[1]>>)
                target == IF isDirectory(out, joined)
                          THEN joined \o (IF EndsWith(joined, <<"/">>) THEN <<>> ELSE <<"/">>)
                                   \o IndexHtml
                          ELSE joined
            IN  /\ res.status \in {200, 404, 500}
                /\ res.status = 404 <=> ~exists(out, target)
                /\ res.status = 500 <=> (exists(out, target) /\ readFileThrows(out, target))
                /\ res.status = 200 =>
                       /\ IsFile(out, target)
                       /\ WithoutScript(res.body) = out[target].content
                       /\ ~IsMarkup(target) => res.body = out[target].content)
    /\ []listening
    /\ [][res' # res => UNCHANGED <<serveVars, conns>>]_vars

\* All three statuses were given by one server: the last request found a
\* directory whose index.html cannot be read as a file.
C19_Witness ==
    /\ res.status = 500
    /\ isDirectory(out, Joined(res.url))
    /\ IsDirectory(out, FilePath(res.url))

\* C27: the file whose content a GET returns lies inside the output root,
\* whatever the request path, one with .. segments included.
C27_ServedFileIsUnderOutputRoot ==
    res.status = 200 =>
        /\ IsFile(out, Served)
        /\ IsProperAncestor(outputPath, Served)

(***************************************************************************)
(* Claims about the rebuild callback of the dev command.                   *)
(***************************************************************************)
\* The changed path has a _layouts or an _includes directory among its
\* segments below the source root.
UnderLayoutsOrIncludes(changedPath) ==
    LET parts == Split(PathRelative(srcPath, changedPath), "/")
    IN  \E i \in 1 .. Len(parts) - 1 : parts[i] \in {LayoutsDir, IncludesDir}

\* C20: the rebuild callback of the dev command starts a build of the
\* selected campaign that discovers and renders all pages when the changed
\* path lies under a _layouts or _includes directory, that renders exactly
\* the changed page when it is a .html page outside those directories, and
\* that renders no page and only copies the assets when it is any other
\* file.
C20_RebuildScopeByPath ==
    [][Len(calls') > Len(calls) =>
        LET changedPath == calls'[Len(calls')]
            rel == PathRelative(srcPath, changedPath)
        IN  /\ campaigns' = <<selectedCampaign>>
            /\ IF UnderLayoutsOrIncludes(changedPath)
               THEN bpc' = "discover"
               ELSE IF EndsWith(rel, DotHtml)
               THEN bpc' = "loop" /\ files' = <<rel>>
               ELSE bpc' = "assets" /\ files' = <<>>]_vars

\* C25: when the dev command has exited on SIGINT, the listener and the
\* watcher are stopped and no rebuild was cut short: the rebuild that was
\* in flight when the signal came has completed.
C25_ShutdownLetsRebuildFinish ==
    exited =>
        /\ ~listening
        /\ inflight = 0
        /\ ~rebuilding
        /\ bpc \notin {"discover", "loop", "render", "assets"}

PagesWritten ==
    {d \in DOMAIN out' : out'[d].as = "page" /\ (d \notin DOMAIN out \/ out[d] # out'[d])}

\* C28: every file build() writes for a page of campaign S, whatever its
\* front-matter, lies under <output-root>/<S>/.
C28_PageOutputStaysInCampaign ==
    [][\A d \in PagesWritten :
          IsProperAncestor(PathJoin(<<outputPath, SlugOf(out'[d].from)>>), d)]_vars

\* The path of a page below the directory of its campaign, and a render
\* context with that campaign in scope.
BelowCampaign(f) == SubSeq(f, Len(SlugOf(f)) + 2, Len(f))

InCampaign(slug) == NewContext(CampaignKey :> Obj(SlugKey :> Str(slug)))

\* C29: for every page of a campaign that build() processes and that has
\* no permalink, campaign_link applied, with the campaign in scope, to the
\* path of the page below the campaign directory is the URL resolveOutput
\* gives the page.
C29_LinkAgreesWithOutput ==
    bpc \in {"loop", "render", "assets", "done"} =>
        \A f \in DOMAIN src :
            (Processed(f) /\ src[f].permalink = <<>>)
                => campaign_link(Str(BelowCampaign(f)), InCampaign(SlugOf(f))).s
                       = Resolved(f).url

\* The files of the output root that a step wrote as copies of assets.
AssetsWritten ==
    {d \in DOMAIN out' : out'[d].as = "asset" /\ (d \notin DOMAIN out \/ out[d] # out'[d])}

\* C30: within one call of build() an asset is copied only when every page
\* of the list has been processed and no page is written after a copy, so
\* when the call returns, every output path that an asset of a campaign
\* shares with a page rendered in the call holds the copy of the asset.
C30_AssetCopyComesLast ==
    /\ [][AssetsWritten # {} => (bpc = "assets" /\ seen = 1 .. Len(files))]_vars
    /\ [][PagesWritten # {} => (bpc = "render" /\ k = 1)]_vars
    /\ [](bpc = "done" =>
            \A c \in 1 .. Len(campaigns) :
                \A p \in AssetFiles(campaigns[c].slug) :
                    LET d == AssetDest(campaigns[c].slug, p)
                    IN  (\E f \in DOMAIN src : Processed(f) /\ Resolved(f).outputFile = d)
                            => (d \in DOMAIN out /\ out[d].as = "asset" /\ out[d].from = p))

\* The index page of campaign a was rendered in a call that has returned,
\* and its output path holds assets/index.html.
C30_Witness ==
    /\ bpc = "done"
    /\ ordered
    /\ built >= 1
    /\ Processed(PageIndexA)
    /\ AssetIndexA \in DOMAIN src
    /\ out[PathJoin(<<outputPath, SlugA, IndexHtml>>)].from = AssetIndexA
    /\ out[PathJoin(<<outputPath, SlugA, IndexHtml>>)].as = "asset"

(***************************************************************************)
(* Claims about the scope stack of campaign_include and the two passes of  *)
(* renderPage, checked under SpecRender.                                   *)
(***************************************************************************)
\* The context of the body pass when part i of the body is reached.
ContextAt(i) ==
    renderTemplates(SubSeq(body, 1, i - 1),
                    NewContext(PageContext(data, campaignData, PageData)))

\* C22: whatever the outcome of a campaign_include of the page (rendered,
\* no campaign in scope, file missing or not parsable, error while the
\* included templates render), the scope stack of the caller after the
\* directive is the stack before it.
C22_IncludeKeepsScopeStack ==
    Rendered =>
        \A i \in 1 .. Len(body) :
            (IsInclude(body[i]) /\ ~ContextAt(i).thrown)
                => renderToken(body[i], ContextAt(i)).scopes = ContextAt(i).scopes

\* The keys a campaign_include of the model passes, and the container.
ArgKeys == {a.key : a \in IncludeArgs} \cup {IncludeKey}

ReadsArg(tok) == tok.k = "output" /\ ~tok.lit /\ tok.path[1] \in ArgKeys

ReadsNoArg(tok) == ~ReadsArg(tok)

\* The layout without the parts that read an argument.
WithoutReads(layout) ==
    IF layout.isNull THEN layout ELSE Source(SelectSeq(layout.tpl, ReadsNoArg))

LayoutPass == Rendered /\ ~layoutSrc.isNull /\ layoutSrc.tpl # <<>> /\ Pass1.status = "resolved"

\* The values the two passes start with.
Pass1Context == PageContext(data, campaignData, PageData)

Pass2Context == LayoutContext(Pass1Context, Pass1.s)

\* C24: in the layout pass every key of the front-matter, campaign and
\* page resolve to the value they have in the body pass.
C24_PassesSeeTheSameValues ==
    LayoutPass =>
        \A key \in DOMAIN data \cup {CampaignKey, PageKey} :
            Pass2Context[key] = Pass1Context[key]

\* C24, as the code has it: the same for every key but content, which in
\* the layout pass is the rendered body.
C24_PassesSeeTheSameValuesButContent ==
    LayoutPass =>
        /\ \A key \in (DOMAIN data \cup {CampaignKey, PageKey}) \ {ContentKey} :
               /\ key \in DOMAIN Pass2Context
               /\ Pass2Context[key] = Pass1Context[key]
        /\ Pass2Context[ContentKey] = Str(Pass1.s)
        /\ Pass1Context[CampaignKey] = campaignData
        /\ Pass1Context[PageKey] = PageData
        /\ html = parseAndRender(layoutSrc.tpl, Pass2Context)

\* A page whose front-matter has the keys title, content, campaign and
\* page went through both passes, and the layout printed the title.
C24_Witness ==
    /\ LayoutPass
    /\ {TitleKey, ContentKey, CampaignKey, PageKey} \subseteq DOMAIN data
    /\ layoutSrc = Source(<<Text(<<"<", "h", "t", "m", "l", ">">>), Output(<<TitleKey>>)>>)
    /\ html = [status |-> "resolved", s |-> <<"<", "h", "t", "m", "l", ">", "T">>]

====
